---- MODULE Spec2Model ----
(***************************************************************************)
(* A model of the SF compiler front-end: the checkpointable lexer, the     *)
(* recursive-descent parser, the symbol table with its builder passes and  *)
(* the pattern elaborator.                                                 *)
(*                                                                         *)
(* Conventions.  A C++ object is a record with the fields of the class.    *)
(* A member function that mutates the object is an operator from the       *)
(* object to the mutated object.  A function that may throw returns a      *)
(* record [ok, ...]: ok = FALSE is the exception, and the object carried   *)
(* by the record is the object as the throw left it (C++ does not undo the *)
(* mutations made before a throw).  Characters are one-element strings;    *)
(* the characters that TLA+ cannot write directly have names: "SP" space,  *)
(* "NL" newline, "TAB", "CR", "NUL", "SQ" single quote, "DQ" double quote, *)
(* "BSL" backslash.  A std::string is a sequence of characters.  A path    *)
(* string "a.b.c" is the sequence <<"a", "b", "c">>.                       *)
(***************************************************************************)
EXTENDS Integers, Sequences, FiniteSets, TLC

VARIABLES
    parser,     \* Parser: [lexer: [input, state, checkpoints], last_span]
    pushed,     \* history: the lexer state at each push_checkpoint still open
    op,         \* history: the last operation, its entry state and its outcome
    table,      \* Table: [nodes, active]
    tlast,      \* history: the last table operation and what it returned
    builder     \* TableBuilder: the package and the outcome of build()

vars == <<parser, pushed, op, table, tlast, builder>>

(***************************************************************************)
(*                               LEXER                                     *)
(***************************************************************************)

Location(l, c) == [line |-> l, column |-> c]
Span(s, e) == [start |-> s, end |-> e]
Token(k, sp) == [kind |-> k, span |-> sp]

\* Span {} : both locations default-constructed
EmptySpan == Span(Location(1, 1), Location(1, 1))

Lower == {"a", "b", "c", "d", "e", "f", "g", "h", "i", "j", "k", "l", "m",
          "n", "o", "p", "q", "r", "s", "t", "u", "v", "w", "x", "y", "z"}
Upper == {"A", "B", "C", "D", "E", "F", "G", "H", "I", "J", "K", "L", "M",
          "N", "O", "P", "Q", "R", "S", "T", "U", "V", "W", "X", "Y", "Z"}
Digits == {"0", "1", "2", "3", "4", "5", "6", "7", "8", "9"}

isalpha(c) == c \in Lower \cup Upper
isdigit(c) == c \in Digits
isalnum(c) == isalpha(c) \/ isdigit(c)

DigitVal(c) ==
    CASE c = "0" -> 0 [] c = "1" -> 1 [] c = "2" -> 2 [] c = "3" -> 3
      [] c = "4" -> 4 [] c = "5" -> 5 [] c = "6" -> 6 [] c = "7" -> 7
      [] c = "8" -> 8 [] c = "9" -> 9

KEYWORDS == {
    << <<"I", "n", "t">>, "IntType" >>,
    << <<"B", "o", "o", "l">>, "BoolType" >>,
    << <<"C", "h", "a", "r">>, "CharType" >>,
    << <<"S", "t", "r", "i", "n", "g">>, "StringType" >>,
    << <<"t", "r", "u", "e">>, "True" >>,
    << <<"f", "a", "l", "s", "e">>, "False" >>,
    << <<"p", "r", "i", "v", "a", "t", "e">>, "Private" >>,
    << <<"p", "r", "o", "t", "e", "c", "t", "e", "d">>, "Protected" >>,
    << <<"a", "s">>, "As" >>,
    << <<"p", "a", "c", "k", "a", "g", "e">>, "Package" >>,
    << <<"m", "o", "d", "u", "l", "e">>, "Module" >>,
    << <<"i", "m", "p", "o", "r", "t">>, "Import" >>,
    << <<"o", "p", "e", "n">>, "Open" >>,
    << <<"i", "n", "i", "t">>, "Init" >>,
    << <<"f", "u", "n", "c">>, "Func" >>,
    << <<"t", "y", "p", "e">>, "Type" >>,
    << <<"c", "l", "a", "s", "s">>, "Class" >>,
    << <<"e", "n", "u", "m">>, "Enum" >>,
    << <<"i", "n", "t", "e", "r", "f", "a", "c", "e">>, "Interface" >>,
    << <<"e", "x", "t", "e", "n", "s", "i", "o", "n">>, "Extension" >>,
    << <<"w", "h", "e", "r", "e">>, "Where" >>,
    << <<"l", "e", "t">>, "Let" >>,
    << <<"m", "u", "t">>, "Mut" >>,
    << <<"i", "f">>, "If" >>,
    << <<"e", "l", "s", "e">>, "Else" >>,
    << <<"s", "w", "i", "t", "c", "h">>, "Switch" >>,
    << <<"c", "a", "s", "e">>, "Case" >>,
    << <<"d", "e", "f", "a", "u", "l", "t">>, "Default" >>,
    << <<"f", "o", "r">>, "For" >>,
    << <<"i", "n">>, "In" >>,
    << <<"w", "h", "i", "l", "e">>, "While" >>,
    << <<"l", "o", "o", "p">>, "Loop" >>,
    << <<"r", "e", "t", "u", "r", "n">>, "Return" >>,
    << <<"c", "o", "n", "t", "i", "n", "u", "e">>, "Continue" >>,
    << <<"b", "r", "e", "a", "k">>, "Break" >>
}

\* Lexer::State with its default member initialisers
State0 ==
    [pos |-> 0, line |-> 1, column |-> 1, lexeme |-> <<>>, int_value |-> 0,
     char_value |-> "NUL", has_token |-> FALSE, token_start |-> Location(1, 1),
     current_token |-> Token("Eof", EmptySpan)]

\* Lexer(std::string input)
Lexer(input) == [input |-> input, state |-> State0, checkpoints |-> <<>>]

is_at_end(L) == L.state.pos >= Len(L.input)

curr_char(L) == IF is_at_end(L) THEN "NUL" ELSE L.input[L.state.pos + 1]

next_char(L) ==
    IF L.state.pos + 1 >= Len(L.input) THEN "NUL" ELSE L.input[L.state.pos + 2]

\* advance(): the lexer after the call; the character returned is the
\* curr_char of the lexer before the call (every call site is guarded so
\* that pos < size, except where the source tests is_at_end first).
advance(L) ==
    LET c == L.input[L.state.pos + 1] IN
    IF c = "NL"
    THEN [L EXCEPT !.state.pos = @ + 1, !.state.line = @ + 1, !.state.column = 1]
    ELSE [L EXCEPT !.state.pos = @ + 1, !.state.column = @ + 1]

Ok(L) == [ok |-> TRUE, L |-> L]
Throw(L) == [ok |-> FALSE, L |-> L]

RECURSIVE skip_line_comment_loop(_)
skip_line_comment_loop(L) ==
    IF ~is_at_end(L) /\ curr_char(L) # "NL"
    THEN skip_line_comment_loop(advance(L))
    ELSE L

skip_line_comment(L) == skip_line_comment_loop(advance(advance(L)))

RECURSIVE skip_block_comment_loop(_)
skip_block_comment_loop(L) ==
    IF is_at_end(L) THEN Throw(L)   \* "Unterminated block comment"
    ELSE IF curr_char(L) = "*" /\ next_char(L) = "/"
    THEN Ok(advance(advance(L)))
    ELSE skip_block_comment_loop(advance(L))

skip_block_comment(L) == skip_block_comment_loop(advance(advance(L)))

RECURSIVE skip_whitespace(_)
skip_whitespace(L) ==
    IF is_at_end(L) THEN Ok(L)
    ELSE LET c == curr_char(L) IN
         IF c \in {"SP", "TAB", "NL", "CR"} THEN skip_whitespace(advance(L))
         ELSE IF c = "/" /\ next_char(L) = "/"
         THEN skip_whitespace(skip_line_comment(L))
         ELSE IF c = "/" /\ next_char(L) = "*"
         THEN LET r == skip_block_comment(L) IN
              IF r.ok THEN skip_whitespace(r.L) ELSE r
         ELSE Ok(L)

RECURSIVE lex_identifier_loop(_)
lex_identifier_loop(L) ==
    IF ~is_at_end(L) /\ (isalnum(curr_char(L)) \/ curr_char(L) = "_")
    THEN lex_identifier_loop(advance(L))
    ELSE L

\* returns [L, kind]
lex_identifier_or_keyword(L) ==
    LET start == L.state.pos
        L1 == lex_identifier_loop(L)
        lexeme == SubSeq(L.input, start + 1, L1.state.pos)
        L2 == [L1 EXCEPT !.state.lexeme = lexeme]
    IN  IF lexeme = <<"_">> THEN [ok |-> TRUE, L |-> L2, kind |-> "Wild"]
        ELSE IF \E kw \in KEYWORDS : kw[1] = lexeme
        THEN [ok |-> TRUE, L |-> L2,
              kind |-> (CHOOSE kw \in KEYWORDS : kw[1] = lexeme)[2]]
        ELSE [ok |-> TRUE, L |-> L2, kind |-> "Id"]

RECURSIVE lex_number_loop(_)
lex_number_loop(L) ==
    IF ~is_at_end(L) /\ isdigit(curr_char(L))
    THEN lex_number_loop(advance(L))
    ELSE L

\* the largest value of int
INT_MAX == 2147483647

\* std::stoi on a string of digits: [ok, val]; out_of_range is ok = FALSE
RECURSIVE stoi_from(_, _, _)
stoi_from(s, i, acc) ==
    IF i > Len(s) THEN [ok |-> TRUE, val |-> acc]
    ELSE LET d == DigitVal(s[i]) IN
         IF acc > (INT_MAX - d) \div 10 THEN [ok |-> FALSE, val |-> 0]
         ELSE stoi_from(s, i + 1, acc * 10 + d)

\* A faulty conversion: a value that does not fit is clamped to INT_MAX.
stoi_clamping(s) ==
    IF stoi_from(s, 1, 0).ok THEN stoi_from(s, 1, 0)
    ELSE [ok |-> TRUE, val |-> INT_MAX]

stoi(s) == stoi_from(s, 1, 0)

lex_number(L) ==
    LET start == L.state.pos
        L1 == lex_number_loop(L)
        lexeme == SubSeq(L.input, start + 1, L1.state.pos)
        L2 == [L1 EXCEPT !.state.lexeme = lexeme]
        v == stoi(lexeme)
    IN  IF v.ok
        THEN [ok |-> TRUE, L |-> [L2 EXCEPT !.state.int_value = v.val], kind |-> "Int"]
        ELSE [ok |-> FALSE, L |-> L2, kind |-> "Int"]

\* the escapes of lex_char / lex_string: escape letter -> character
CharEscape(e) ==
    CASE e = "n" -> "NL" [] e = "t" -> "TAB" [] e = "r" -> "CR"
      [] e = "BSL" -> "BSL" [] e = "SQ" -> "SQ" [] e = "0" -> "NUL"
      [] OTHER -> "none"

StringEscape(e) ==
    CASE e = "n" -> "NL" [] e = "t" -> "TAB" [] e = "r" -> "CR"
      [] e = "BSL" -> "BSL" [] e = "DQ" -> "DQ" [] e = "0" -> "NUL"
      [] OTHER -> "none"

lex_char(L) ==
    LET L1 == advance(L) IN             \* skip opening '
    IF is_at_end(L1) THEN [ok |-> FALSE, L |-> L1, kind |-> "Char"]
    ELSE
    LET c == curr_char(L1)
        L2 == advance(L1)
    IN  IF c = "BSL"
        THEN IF is_at_end(L2) THEN [ok |-> FALSE, L |-> L2, kind |-> "Char"]
             ELSE LET escaped == curr_char(L2)
                      L3 == advance(L2)
                  IN  IF CharEscape(escaped) = "none"
                      THEN [ok |-> FALSE, L |-> L3, kind |-> "Char"]
                      ELSE LET L4 == [L3 EXCEPT !.state.char_value = CharEscape(escaped)] IN
                           IF is_at_end(L4) \/ curr_char(L4) # "SQ"
                           THEN [ok |-> FALSE, L |-> L4, kind |-> "Char"]
                           ELSE [ok |-> TRUE, L |-> advance(L4), kind |-> "Char"]
        ELSE LET L4 == [L2 EXCEPT !.state.char_value = c] IN
             IF is_at_end(L4) \/ curr_char(L4) # "SQ"
             THEN [ok |-> FALSE, L |-> L4, kind |-> "Char"]
             ELSE [ok |-> TRUE, L |-> advance(L4), kind |-> "Char"]

\* the while loop of lex_string: [ok, L, result]
RECURSIVE lex_string_loop(_, _)
lex_string_loop(L, result) ==
    IF ~is_at_end(L) /\ curr_char(L) # "DQ"
    THEN LET c == curr_char(L)
             L1 == advance(L)
         IN  IF c = "BSL"
             THEN IF is_at_end(L1) THEN [ok |-> FALSE, L |-> L1, result |-> result]
                  ELSE LET escaped == curr_char(L1)
                           L2 == advance(L1)
                       IN  IF StringEscape(escaped) = "none"
                           THEN [ok |-> FALSE, L |-> L2, result |-> result]
                           ELSE lex_string_loop(L2, Append(result, StringEscape(escaped)))
             ELSE lex_string_loop(L1, Append(result, c))
    ELSE [ok |-> TRUE, L |-> L, result |-> result]

lex_string(L) ==
    LET r == lex_string_loop(advance(L), <<>>) IN
    IF ~r.ok THEN [ok |-> FALSE, L |-> r.L, kind |-> "String"]
    ELSE IF is_at_end(r.L) THEN [ok |-> FALSE, L |-> r.L, kind |-> "String"]
    ELSE [ok |-> TRUE, L |-> [advance(r.L) EXCEPT !.state.lexeme = r.result],
          kind |-> "String"]

\* make_token: the token of `kind` from token_start to the current location
make_token(L, kind) ==
    Token(kind, Span(L.state.token_start, Location(L.state.line, L.state.column)))

\* the switch of Lexer::next on the character c just consumed: [ok, L, kind]
lex_punct(L, c) ==
    LET n == curr_char(L)
        one(k) == [ok |-> TRUE, L |-> L, kind |-> k]
        two(k) == [ok |-> TRUE, L |-> advance(L), kind |-> k]
    IN  CASE c = "(" -> one("LParen")
          [] c = ")" -> one("RParen")
          [] c = "[" -> one("LBrack")
          [] c = "]" -> one("RBrack")
          [] c = "{" -> one("LBrace")
          [] c = "}" -> one("RBrace")
          [] c = "," -> one("Comma")
          [] c = ";" -> one("Semi")
          [] c = "@" -> one("At")
          [] c = "?" -> one("Try")
          [] c = "." -> IF n = "." THEN two("DotDot") ELSE one("Dot")
          [] c = ":" -> IF n = ":" THEN two("ColCol") ELSE one("Col")
          [] c = "|" -> IF n = "|" THEN two("Or") ELSE one("Pipe")
          [] c = "&" -> IF n = "&" THEN two("And") ELSE one("Amp")
          [] c = "=" -> IF n = "=" THEN two("EqEq")
                        ELSE IF n = ">" THEN two("FatArrow") ELSE one("Eq")
          [] c = "!" -> IF n = "=" THEN two("Neq") ELSE one("Not")
          [] c = "<" -> IF n = "=" THEN two("Lte")
                        ELSE IF n = "-" THEN two("LArrow") ELSE one("Lt")
          [] c = ">" -> IF n = "=" THEN two("Gte") ELSE one("Gt")
          [] c = "+" -> IF n = "=" THEN two("AddEq") ELSE one("Add")
          [] c = "-" -> IF n = "=" THEN two("SubEq")
                        ELSE IF n = ">" THEN two("RArrow") ELSE one("Sub")
          [] c = "*" -> IF n = "=" THEN two("MulEq") ELSE one("Mul")
          [] c = "/" -> IF n = "=" THEN two("DivEq") ELSE one("Div")
          [] c = "%" -> IF n = "=" THEN two("ModEq") ELSE one("Mod")
          [] OTHER -> [ok |-> FALSE, L |-> L, kind |-> "Eof"]

NoToken == Token("Eof", EmptySpan)

\* Lexer::next() from `state.token_start = {line, column}` on: L1 is the
\* lexer with the whitespace skipped and token_start set
lex_token(L1) ==
    LET fin(r) == [ok |-> r.ok, L |-> r.L,
                   tok |-> IF r.ok THEN make_token(r.L, r.kind) ELSE NoToken]
        c == curr_char(L1)
    IN  IF is_at_end(L1) THEN [ok |-> TRUE, L |-> L1, tok |-> make_token(L1, "Eof")]
        ELSE IF isalpha(c) \/ c = "_" THEN fin(lex_identifier_or_keyword(L1))
        ELSE IF isdigit(c) THEN fin(lex_number(L1))
        ELSE IF c = "SQ" THEN fin(lex_char(L1))
        ELSE IF c = "DQ" THEN fin(lex_string(L1))
        ELSE fin(lex_punct(advance(L1), c))

\* Lexer::next() after skip_whitespace(), which returned or threw w
lex_after_whitespace(w) ==
    IF ~w.ok THEN [ok |-> FALSE, L |-> w.L, tok |-> NoToken]
    ELSE lex_token([w.L EXCEPT !.state.token_start =
                                   Location(w.L.state.line, w.L.state.column)])

\* Lexer::next(): [ok, L, tok]
LexNext(L) ==
    IF L.state.has_token
    THEN [ok |-> TRUE, L |-> [L EXCEPT !.state.has_token = FALSE],
          tok |-> L.state.current_token]
    ELSE lex_after_whitespace(skip_whitespace(L))

\* Lexer::peek() after its call of next(), which returned or threw r
cache_token(r) ==
    IF ~r.ok THEN r
    ELSE [ok |-> TRUE,
          L |-> [r.L EXCEPT !.state.current_token = r.tok,
                            !.state.has_token = TRUE],
          tok |-> r.tok]

\* A faulty peek: the token is returned but not kept as the lookahead.
LexPeek_without_cache(L) == LexNext(L)

\* Lexer::peek(): [ok, L, tok]
LexPeek(L) ==
    IF L.state.has_token
    THEN [ok |-> TRUE, L |-> L, tok |-> L.state.current_token]
    ELSE cache_token(LexNext(L))

push_checkpoint(L) == [L EXCEPT !.checkpoints = Append(@, L.state)]

\* pop_back on an empty vector is undefined behaviour; no caller in the
\* parser reaches it with an empty vector, and the lexer driver guards it.
pop_checkpoint(L) ==
    [L EXCEPT !.checkpoints = SubSeq(@, 1, Len(@) - 1)]

\* A faulty restore_checkpoint: the lookahead (has_token, current_token) is
\* treated as a cache outside the checkpointed state and survives the restore.
restore_checkpoint_keeps_lookahead(L) ==
    IF L.checkpoints = <<>> THEN Throw(L)
    ELSE Ok([L EXCEPT !.state = [L.checkpoints[Len(L.checkpoints)] EXCEPT
                                    !.has_token = L.state.has_token,
                                    !.current_token = L.state.current_token],
                      !.checkpoints = SubSeq(@, 1, Len(@) - 1)])

\* [ok, L]
restore_checkpoint(L) ==
    IF L.checkpoints = <<>> THEN Throw(L)
    ELSE Ok([L EXCEPT !.state = L.checkpoints[Len(L.checkpoints)],
                      !.checkpoints = SubSeq(@, 1, Len(@) - 1)])

(***************************************************************************)
(*                               PARSER                                    *)
(* Every parse function maps the parser object P to [ok, P, v]: v is the   *)
(* value returned, ok = FALSE is an exception and P the parser as the      *)
(* throw left it.  An optional<T> is the empty or the one-element sequence.*)
(***************************************************************************)

None == <<>>
Some(x) == <<x>>

Ret(P, v) == [ok |-> TRUE, P |-> P, v |-> v]
Fail(P) == [ok |-> FALSE, P |-> P, v |-> <<>>]

\* Parser(pkgName, input)
Parser(input) == [lexer |-> Lexer(input), last_span |-> EmptySpan]

RECURSIVE Call(_, _)

\* Parser::peek
peek(P) ==
    LET r == Call("LexPeek", P.lexer) IN
    [ok |-> r.ok, P |-> [P EXCEPT !.lexer = r.L], v |-> r.tok]

\* Parser::next
next(P) ==
    LET r == Call("LexNext", P.lexer) IN
    IF r.ok
    THEN Ret([P EXCEPT !.lexer = r.L, !.last_span = r.tok.span], r.tok)
    ELSE Fail([P EXCEPT !.lexer = r.L])

start_loc(P) ==
    LET r == peek(P) IN IF r.ok THEN Ret(r.P, r.v.span.start) ELSE Fail(r.P)

make_span(P, start) == Span(start, P.last_span.end)

expect(P, expected) ==
    LET t == peek(P) IN
    IF ~t.ok THEN Fail(t.P)
    ELSE IF t.v.kind # expected THEN Fail(t.P)
    ELSE next(t.P)

parse_ident(P) ==
    LET t == peek(P) IN
    IF ~t.ok THEN Fail(t.P)
    ELSE IF t.v.kind # "Id" THEN Fail(t.P)
    ELSE LET lexeme == t.P.lexer.state.lexeme
             n == next(t.P)
         IN  IF n.ok THEN Ret(n.P, lexeme) ELSE Fail(n.P)

RECURSIVE parse_path_loop(_, _)
parse_path_loop(P, path) ==
    LET t == peek(P) IN
    IF ~t.ok THEN Fail(t.P)
    ELSE IF t.v.kind # "Dot" THEN Ret(t.P, path)
    ELSE LET n == next(t.P)
             token == peek(n.P)
         IN  IF ~token.ok THEN Fail(token.P)
             ELSE IF token.v.kind = "Id"
             THEN LET i == Call("parse_ident", token.P) IN
                  IF i.ok THEN parse_path_loop(i.P, Append(path, i.v)) ELSE Fail(i.P)
             ELSE IF token.v.kind = "Int"
             THEN LET value == token.P.lexer.state.int_value
                      m == next(token.P)
                  IN  parse_path_loop(m.P, Append(path, value))
             ELSE Fail(token.P)

parse_path(P) == parse_path_loop(P, <<>>)

Name(ident, path) == [ident |-> ident, path |-> path]

parse_name(P) ==
    LET i == Call("parse_ident", P) IN
    IF ~i.ok THEN Fail(i.P)
    ELSE LET q == Call("parse_path", i.P) IN
         IF ~q.ok THEN Fail(q.P) ELSE Ret(q.P, Name(i.v, q.v))

\* push_checkpoint / pop_checkpoint / restore_checkpoint on the parser's lexer
PushCp(P) == [P EXCEPT !.lexer = push_checkpoint(P.lexer)]
PopCp(P) == [P EXCEPT !.lexer = pop_checkpoint(P.lexer)]
RestoreCp(P) ==
    LET r == restore_checkpoint(P.lexer) IN
    [ok |-> r.ok, P |-> [P EXCEPT !.lexer = r.L], v |-> <<>>]

MetaType(span) == [k |-> "Meta", span |-> span]
BasicType(k, span) == [k |-> k, span |-> span]
NameType(name, type_args, span) ==
    [k |-> "Name", name |-> name, type_args |-> type_args, span |-> span]
TupleType(elems, span) == [k |-> "Tuple", elems |-> elems, span |-> span]
ArrowType(inputs, output, span) ==
    [k |-> "Arrow", inputs |-> inputs, output |-> output, span |-> span]

Lit(k, value, span) == [k |-> k, value |-> value, span |-> span]
LitPat(lit, span) == [k |-> "Lit", literal |-> lit, span |-> span]
WildPat(span) == [k |-> "Wild", span |-> span]
CtorPat(name, type_args, args, span) ==
    [k |-> "Ctor", name |-> name, type_args |-> type_args, args |-> args,
     span |-> span]
NamePat(name, type_args, hint, is_mut, span) ==
    [k |-> "Name", name |-> name, type_args |-> type_args, hint |-> hint,
     is_mut |-> is_mut, span |-> span]
AtPat(name, hint, is_mut, pat, span) ==
    [k |-> "At", name |-> name, hint |-> hint, is_mut |-> is_mut, pat |-> pat,
     span |-> span]
TuplePat(elems, span) == [k |-> "Tuple", elems |-> elems, span |-> span]
OrPat(options, span) == [k |-> "Or", options |-> options, span |-> span]

RECURSIVE parse_sep(_, _, _, _, _)
RECURSIVE parse_sep_loop(_, _, _, _, _, _)
RECURSIVE parse_type_args(_)
RECURSIVE parse_tuple_type(_)
RECURSIVE parse_type_basic(_)
RECURSIVE parse_type_loop(_, _, _)
RECURSIVE parse_type(_)
RECURSIVE parse_hint(_)
RECURSIVE parse_pat_basic(_, _)
RECURSIVE parse_tuple_pat(_)
RECURSIVE parse_pat(_, _)
RECURSIVE parse_tuple_elem(_)
RECURSIVE parse_tuple_expr(_)
RECURSIVE parse_lam_expr(_)
RECURSIVE parse_cond(_)
RECURSIVE parse_ite_loop(_, _, _)
RECURSIVE parse_ite_expr(_)
RECURSIVE parse_clause_stmts(_, _)
RECURSIVE parse_clause(_)
RECURSIVE parse_switch_loop(_, _)
RECURSIVE parse_switch_expr(_)
RECURSIVE parse_for_expr(_)
RECURSIVE parse_while_expr(_)
RECURSIVE parse_loop_expr(_)
RECURSIVE parse_block_loop(_, _)
RECURSIVE parse_block_expr(_)
RECURSIVE parse_expr0(_)
RECURSIVE parse_expr1_loop(_, _, _)
RECURSIVE parse_expr1(_)
RECURSIVE parse_expr2(_)
RECURSIVE parse_binary_loop(_, _, _, _)
RECURSIVE parse_rung(_, _)
RECURSIVE parse_expr3(_)
RECURSIVE parse_expr4(_)
RECURSIVE parse_expr5(_)
RECURSIVE parse_expr6(_)
RECURSIVE parse_expr7(_)
RECURSIVE parse_expr8(_)
RECURSIVE parse_expr9_loop(_, _, _)
RECURSIVE parse_expr9(_)
RECURSIVE parse_expr(_)
RECURSIVE parse_import(_)
RECURSIVE parse_open_stmt(_)
RECURSIVE parse_let_stmt(_)
RECURSIVE parse_func_stmt(_)
RECURSIVE parse_attrs_loop(_, _)
RECURSIVE parse_attrs(_)
RECURSIVE parse_stmt(_)

\* the loop `while (peek() == sep)` of parse_sep
parse_sep_loop(P, items, fn, sep, allow_trailing, min_size) ==
    LET done(Q) == IF Len(items) < min_size THEN Fail(Q) ELSE Ret(Q, items)
        t == peek(P)
        n == next(t.P)
        r == Call(fn, n.P)
    IN  CASE ~t.ok -> Fail(t.P)
          [] t.ok /\ t.v.kind # sep -> done(t.P)
          [] OTHER ->
                IF r.ok
                THEN parse_sep_loop(r.P, Append(items, r.v), fn, sep,
                                    allow_trailing, min_size)
                ELSE IF allow_trailing THEN done(r.P)
                ELSE Fail(r.P)

\* parse_sep<T>(fn, sep, allow_trailing, min_size); fn names the callback
parse_sep(P, fn, sep, allow_trailing, min_size) ==
    LET r == Call(fn, P) IN
    IF r.ok
    THEN parse_sep_loop(r.P, <<r.v>>, fn, sep, allow_trailing, min_size)
    ELSE IF min_size > 0 THEN Fail(r.P) ELSE Ret(r.P, <<>>)

\* Call(fn, x): the call of the member function named fn on the object x.
\* The calls between the parse functions, and the parser's calls into the
\* lexer, go through this one operator; a rung of the binary ladder calls
\* the rung below it as parse_rung.  "parse_pat(false)" is parse_pat
\* with use_hint = false; parse_pat and parse_pat_basic alone take the
\* default use_hint = true.
Call(fn, x) ==
    CASE fn = "LexPeek" -> LexPeek(x)
      [] fn = "LexNext" -> LexNext(x)
      [] fn = "next" -> next(x)
      [] fn = "parse_pat" -> parse_pat(x, TRUE)
      [] fn = "parse_pat(false)" -> parse_pat(x, FALSE)
      [] fn = "parse_pat_basic" -> parse_pat_basic(x, TRUE)
      [] fn = "parse_pat_basic(false)" -> parse_pat_basic(x, FALSE)
      [] fn = "parse_ident" -> parse_ident(x)
      [] fn = "parse_path" -> parse_path(x)
      [] fn = "parse_name" -> parse_name(x)
      [] fn = "parse_type_args" -> parse_type_args(x)
      [] fn = "parse_tuple_type" -> parse_tuple_type(x)
      [] fn = "parse_type_basic" -> parse_type_basic(x)
      [] fn = "parse_type" -> parse_type(x)
      [] fn = "parse_hint" -> parse_hint(x)
      [] fn = "parse_tuple_pat" -> parse_tuple_pat(x)
      [] fn = "parse_tuple_elem" -> parse_tuple_elem(x)
      [] fn = "parse_tuple_expr" -> parse_tuple_expr(x)
      [] fn = "parse_lam_expr" -> parse_lam_expr(x)
      [] fn = "parse_expr0" -> parse_expr0(x)
      [] fn = "parse_expr1" -> parse_expr1(x)
      [] fn = "parse_expr2" -> parse_expr2(x)
      [] fn = "parse_expr3" -> parse_expr3(x)
      [] fn = "parse_expr4" -> parse_expr4(x)
      [] fn = "parse_expr5" -> parse_expr5(x)
      [] fn = "parse_expr6" -> parse_expr6(x)
      [] fn = "parse_expr7" -> parse_expr7(x)
      [] fn = "parse_expr8" -> parse_expr8(x)
      [] fn = "parse_expr9" -> parse_expr9(x)
      [] fn = "parse_expr" -> parse_expr(x)
      [] fn = "parse_cond" -> parse_cond(x)
      [] fn = "parse_ite_expr" -> parse_ite_expr(x)
      [] fn = "parse_clause" -> parse_clause(x)
      [] fn = "parse_switch_expr" -> parse_switch_expr(x)
      [] fn = "parse_for_expr" -> parse_for_expr(x)
      [] fn = "parse_while_expr" -> parse_while_expr(x)
      [] fn = "parse_loop_expr" -> parse_loop_expr(x)
      [] fn = "parse_block_expr" -> parse_block_expr(x)
      [] fn = "parse_import" -> parse_import(x)
      [] fn = "parse_open_stmt" -> parse_open_stmt(x)
      [] fn = "parse_let_stmt" -> parse_let_stmt(x)
      [] fn = "parse_func_stmt" -> parse_func_stmt(x)
      [] fn = "parse_attrs" -> parse_attrs(x)
      [] fn = "parse_stmt" -> parse_stmt(x)

parse_type_args(P) ==
    LET t == peek(P)
        P1 == PushCp(t.P)
        n == next(P1)                      \* consume '<'
        r == parse_sep(n.P, "parse_type", "Comma", FALSE, 0)
    IN  CASE ~t.ok -> Fail(t.P)
          [] t.ok /\ t.v.kind # "Lt" -> Ret(t.P, None)
          [] OTHER ->
                IF r.ok
                THEN LET g == peek(r.P) IN
                     IF ~g.ok THEN Fail(g.P)
                     ELSE IF g.v.kind = "Gt"
                     THEN LET m == next(PopCp(g.P)) IN Ret(m.P, Some(r.v))
                     ELSE LET b == RestoreCp(g.P) IN
                          IF b.ok THEN Ret(b.P, None) ELSE Fail(b.P)
                ELSE Fail(r.P)

parse_tuple_type(P) ==
    LET s == start_loc(P) IN
    IF ~s.ok THEN Fail(s.P) ELSE
    LET e == expect(s.P, "LParen") IN
    IF ~e.ok THEN Fail(e.P) ELSE
    LET r == parse_sep(e.P, "parse_type", "Comma", FALSE, 0) IN
    IF ~r.ok THEN Fail(r.P) ELSE
    LET c == expect(r.P, "RParen") IN
    IF ~c.ok THEN Fail(c.P)
    ELSE IF r.v = <<>> THEN Ret(c.P, BasicType("Unit", make_span(c.P, s.v)))
    ELSE IF Len(r.v) = 1 THEN Ret(c.P, r.v[1])
    ELSE Ret(c.P, TupleType(r.v, make_span(c.P, s.v)))

parse_type_basic(P) ==
    LET s == start_loc(P) IN
    IF ~s.ok THEN Fail(s.P) ELSE
    LET kind == peek(s.P).v.kind IN
    IF kind \in {"IntType", "BoolType", "CharType", "StringType"}
    THEN LET n == next(s.P)
             k == CASE kind = "IntType" -> "Int" [] kind = "BoolType" -> "Bool"
                    [] kind = "CharType" -> "Char" [] kind = "StringType" -> "String"
         IN  Ret(n.P, BasicType(k, make_span(n.P, s.v)))
    ELSE IF kind = "Id"
    THEN LET nm == Call("parse_name", s.P) IN
         IF ~nm.ok THEN Fail(nm.P) ELSE
         LET ta == Call("parse_type_args", nm.P) IN
         IF ~ta.ok THEN Fail(ta.P)
         ELSE Ret(ta.P, NameType(nm.v, ta.v, make_span(ta.P, s.v)))
    ELSE IF kind = "LParen" THEN Call("parse_tuple_type", s.P)
    ELSE Fail(s.P)

\* the arrow types built right to left from the inputs collected
RECURSIVE FoldArrows(_, _, _)
FoldArrows(inputs, rhs, span) ==
    IF inputs = <<>> THEN rhs
    ELSE LET t == inputs[Len(inputs)]
             a == IF t.k = "Tuple" THEN ArrowType(t.elems, rhs, span)
                  ELSE ArrowType(<<t>>, rhs, span)
         IN  FoldArrows(SubSeq(inputs, 1, Len(inputs) - 1), a, span)

parse_type_loop(P, inputs, rhs) ==
    LET t == peek(P) IN
    IF ~t.ok THEN Fail(t.P)
    ELSE IF t.v.kind # "RArrow" THEN Ret(t.P, [inputs |-> inputs, rhs |-> rhs])
    ELSE LET n == next(t.P)
             r == Call("parse_type_basic", n.P)
         IN  IF ~r.ok THEN Fail(r.P)
             ELSE parse_type_loop(r.P, Append(inputs, rhs), r.v)

parse_type(P) ==
    LET s == start_loc(P)
        b == Call("parse_type_basic", s.P)
        l == parse_type_loop(b.P, <<>>, b.v)
    IN  IF s.ok /\ b.ok
        THEN IF l.ok
             THEN Ret(l.P, FoldArrows(l.v.inputs, l.v.rhs, make_span(l.P, s.v)))
             ELSE Fail(l.P)
        ELSE IF s.ok THEN Fail(b.P) ELSE Fail(s.P)

parse_hint(P) ==
    LET t == peek(P) IN
    IF ~t.ok THEN Fail(t.P)
    ELSE IF t.v.kind = "Col" THEN Call("parse_type", next(t.P).P)
    ELSE Ret(t.P, MetaType(EmptySpan))

LitOf(P, kind) ==
    CASE kind = "Int" -> [k |-> "Int", value |-> P.lexer.state.int_value]
      [] kind = "True" -> [k |-> "Bool", value |-> TRUE]
      [] kind = "False" -> [k |-> "Bool", value |-> FALSE]
      [] kind = "Char" -> [k |-> "Char", value |-> P.lexer.state.char_value]
      [] kind = "String" -> [k |-> "String", value |-> P.lexer.state.lexeme]

parse_pat_basic(P, use_hint) ==
    LET s == start_loc(P) IN
    IF ~s.ok THEN Fail(s.P) ELSE
    LET kind == peek(s.P).v.kind IN
    IF kind \in {"Int", "True", "False", "Char", "String"}
    THEN LET l == LitOf(s.P, kind)
             n == next(s.P)
             span == make_span(n.P, s.v)
         IN  Ret(n.P, LitPat(Lit(l.k, l.value, span), span))
    ELSE IF kind = "Wild"
    THEN LET n == next(s.P) IN Ret(n.P, WildPat(make_span(n.P, s.v)))
    ELSE IF kind \in {"Mut", "Id"}
    THEN LET is_mut == (kind = "Mut")
             P1 == IF is_mut THEN next(s.P).P ELSE s.P
             nm == Call("parse_name", P1)
         IN  IF ~nm.ok THEN Fail(nm.P) ELSE
             LET ta == Call("parse_type_args", nm.P) IN
             IF ~ta.ok THEN Fail(ta.P) ELSE
             LET t == peek(ta.P) IN
             IF ~t.ok THEN Fail(t.P)
             ELSE IF t.v.kind = "LParen"
             THEN LET n == next(t.P)
                      args == parse_sep(n.P, "parse_pat", "Comma", FALSE, 0)
                  IN  IF ~args.ok THEN Fail(args.P) ELSE
                      LET c == expect(args.P, "RParen") IN
                      IF ~c.ok THEN Fail(c.P)
                      ELSE Ret(c.P, CtorPat(nm.v, ta.v, Some(args.v),
                                            make_span(c.P, s.v)))
             ELSE LET h == IF use_hint THEN Call("parse_hint", t.P)
                           ELSE Ret(t.P, MetaType(EmptySpan))
                  IN  IF ~h.ok THEN Fail(h.P) ELSE
                      LET a == peek(h.P) IN
                      IF ~a.ok THEN Fail(a.P)
                      ELSE IF a.v.kind = "At"
                      THEN LET n == next(a.P) IN
                           IF ta.v # None THEN Fail(n.P)
                           ELSE LET sub == Call("parse_pat_basic", n.P) IN
                                IF ~sub.ok THEN Fail(sub.P)
                                ELSE Ret(sub.P, AtPat(nm.v, h.v, is_mut, sub.v,
                                                      make_span(sub.P, s.v)))
                      ELSE Ret(a.P, NamePat(nm.v, ta.v, h.v, is_mut,
                                            make_span(a.P, s.v)))
    ELSE IF kind = "LParen" THEN Call("parse_tuple_pat", s.P)
    ELSE Fail(s.P)

parse_tuple_pat(P) ==
    LET s == start_loc(P) IN
    IF ~s.ok THEN Fail(s.P) ELSE
    LET e == expect(s.P, "LParen") IN
    IF ~e.ok THEN Fail(e.P) ELSE
    LET r == parse_sep(e.P, "parse_pat", "Comma", FALSE, 0) IN
    IF ~r.ok THEN Fail(r.P) ELSE
    LET c == expect(r.P, "RParen") IN
    IF ~c.ok THEN Fail(c.P)
    ELSE IF r.v = <<>>
    THEN LET span == make_span(c.P, s.v) IN
         Ret(c.P, LitPat(Lit("Unit", <<>>, span), span))
    ELSE IF Len(r.v) = 1 THEN Ret(c.P, r.v[1])
    ELSE Ret(c.P, TuplePat(r.v, make_span(c.P, s.v)))

parse_pat(P, use_hint) ==
    LET s == start_loc(P) IN
    IF ~s.ok THEN Fail(s.P) ELSE
    LET r == parse_sep(s.P, IF use_hint THEN "parse_pat_basic" ELSE "parse_pat_basic(false)",
                       "Pipe", FALSE, 1)
    IN  IF ~r.ok THEN Fail(r.P)
        ELSE IF Len(r.v) = 1 THEN Ret(r.P, r.v[1])
        ELSE Ret(r.P, OrPat(r.v, make_span(r.P, s.v)))

LitExpr(lit, span) == [k |-> "Lit", literal |-> lit, span |-> span]
NameExpr(name, type_args, span) ==
    [k |-> "Name", name |-> name, type_args |-> type_args, span |-> span]
HoleExpr(span) == [k |-> "Hole", span |-> span]
TupleExpr(elems, span) == [k |-> "Tuple", elems |-> elems, span |-> span]
HintExpr(expr, hint, span) ==
    [k |-> "Hint", expr |-> expr, hint |-> hint, span |-> span]
LamExpr(params, body, span) ==
    [k |-> "Lam", params |-> params, body |-> body, span |-> span]
UnaryExpr(o, expr, span) == [k |-> "Unary", op |-> o, expr |-> expr, span |-> span]
DotExpr(expr, path, type_args, span) ==
    [k |-> "Unary", op |-> "Dot", expr |-> expr, path |-> path,
     type_args |-> type_args, span |-> span]
IndexExpr(expr, indices, span) ==
    [k |-> "Unary", op |-> "Index", expr |-> expr, indices |-> indices,
     span |-> span]
BinaryExpr(o, left, right, span) ==
    [k |-> "Binary", op |-> o, left |-> left, right |-> right, span |-> span]
AssignExpr(mode, left, right, span) ==
    [k |-> "Binary", op |-> "Assign", mode |-> mode, left |-> left,
     right |-> right, span |-> span]
AppExpr(func, args, span) ==
    [k |-> "App", func |-> func, args |-> args, span |-> span]
BlockExpr(stmts, span) == [k |-> "Block", stmts |-> stmts, span |-> span]
IteExpr(then_branches, else_branch, span) ==
    [k |-> "Ite", then_branches |-> then_branches, else_branch |-> else_branch,
     span |-> span]
ReturnExpr(expr, span) == [k |-> "Return", expr |-> expr, span |-> span]

\* the lambda handed to parse_sep by parse_tuple_expr
parse_tuple_elem(P) ==
    LET s == start_loc(P) IN
    IF ~s.ok THEN Fail(s.P) ELSE
    LET e == Call("parse_expr", s.P) IN
    IF ~e.ok THEN Fail(e.P) ELSE
    LET t == peek(e.P) IN
    IF ~t.ok THEN Fail(t.P)
    ELSE IF t.v.kind = "Col"
    THEN LET h == Call("parse_hint", t.P) IN
         IF ~h.ok THEN Fail(h.P)
         ELSE Ret(h.P, HintExpr(e.v, h.v, make_span(h.P, s.v)))
    ELSE Ret(t.P, e.v)

parse_tuple_expr(P) ==
    LET s == start_loc(P) IN
    IF ~s.ok THEN Fail(s.P) ELSE
    LET e == expect(s.P, "LParen") IN
    IF ~e.ok THEN Fail(e.P) ELSE
    LET r == parse_sep(e.P, "parse_tuple_elem", "Comma", FALSE, 0) IN
    IF ~r.ok THEN Fail(r.P) ELSE
    LET c == expect(r.P, "RParen") IN
    IF ~c.ok THEN Fail(c.P)
    ELSE IF r.v = <<>>
    THEN LET span == make_span(c.P, s.v) IN
         Ret(c.P, LitExpr(Lit("Unit", <<>>, span), span))
    ELSE IF Len(r.v) = 1 THEN Ret(c.P, r.v[1])
    ELSE Ret(c.P, TupleExpr(r.v, make_span(c.P, s.v)))

parse_lam_expr(P) ==
    LET s == start_loc(P) IN
    IF ~s.ok THEN Fail(s.P) ELSE
    LET pat == Call("parse_pat_basic", s.P) IN
    IF ~pat.ok THEN Fail(pat.P) ELSE
    LET params == IF pat.v.k = "Tuple" THEN pat.v.elems ELSE <<pat.v>>
        e == expect(pat.P, "FatArrow")
    IN  IF ~e.ok THEN Fail(e.P) ELSE
        LET body == Call("parse_expr", e.P) IN
        IF ~body.ok THEN Fail(body.P)
        ELSE Ret(body.P, LamExpr(params, body.v, make_span(body.P, s.v)))

parse_expr0(P) ==
    LET s == start_loc(P)
        kind == peek(s.P).v.kind
        nm == Call("parse_name", s.P)
        ta == Call("parse_type_args", nm.P)
    IN  CASE ~s.ok -> Fail(s.P)
          [] s.ok /\ kind \in {"Int", "True", "False", "Char", "String"} ->
                LET l == LitOf(s.P, kind)
                    n == next(s.P)
                    span == make_span(n.P, s.v)
                IN  Ret(n.P, LitExpr(Lit(l.k, l.value, span), span))
          [] s.ok /\ kind = "Id" ->
                IF nm.ok /\ ta.ok
                THEN Ret(ta.P, NameExpr(nm.v, ta.v, make_span(ta.P, s.v)))
                ELSE IF nm.ok THEN Fail(ta.P) ELSE Fail(nm.P)
          [] s.ok /\ kind = "Wild" ->
                LET n == next(s.P) IN Ret(n.P, HoleExpr(make_span(n.P, s.v)))
          [] s.ok /\ kind = "LParen" -> Call("parse_tuple_expr", s.P)
          [] OTHER -> Fail(s.P)

\* the loop `while (true)` of parse_expr1
parse_expr1_loop(P, start, expr) ==
    LET t == peek(P)
        n == next(t.P)
        r == parse_sep(n.P, "parse_expr", "Comma", FALSE, 0)
    IN  CASE ~t.ok -> Fail(t.P)
          [] t.ok /\ t.v.kind = "Try" ->
                parse_expr1_loop(n.P, start,
                                 UnaryExpr("Try", expr, make_span(n.P, start)))
          [] t.ok /\ t.v.kind = "Dot" ->
                LET path == Call("parse_path", t.P)
                    ta == Call("parse_type_args", path.P)
                IN  IF path.ok /\ ta.ok
                    THEN parse_expr1_loop(ta.P, start,
                             DotExpr(expr, path.v, ta.v, make_span(ta.P, start)))
                    ELSE IF path.ok THEN Fail(ta.P) ELSE Fail(path.P)
          [] t.ok /\ t.v.kind = "LBrack" ->
                LET c == expect(r.P, "RBrack") IN
                IF r.ok /\ c.ok
                THEN parse_expr1_loop(c.P, start,
                         IndexExpr(expr, r.v, make_span(c.P, start)))
                ELSE IF r.ok THEN Fail(c.P) ELSE Fail(r.P)
          [] t.ok /\ t.v.kind = "LParen" ->
                LET c == expect(r.P, "RParen") IN
                IF r.ok /\ c.ok
                THEN parse_expr1_loop(c.P, start,
                         AppExpr(expr, r.v, make_span(c.P, start)))
                ELSE IF r.ok THEN Fail(c.P) ELSE Fail(r.P)
          [] OTHER -> Ret(t.P, expr)

parse_expr1(P) ==
    LET s == start_loc(P)
        e == Call("parse_expr0", s.P)
    IN  IF s.ok /\ e.ok THEN parse_expr1_loop(e.P, s.v, e.v)
        ELSE IF s.ok THEN Fail(e.P) ELSE Fail(s.P)

parse_expr2(P) ==
    LET s == start_loc(P)
        kind == peek(s.P).v.kind
        n == next(s.P)
        e == Call("parse_expr2", n.P)
        o == CASE kind = "Add" -> "Pos" [] kind = "Sub" -> "Neg"
               [] kind = "Amp" -> "Addr" [] kind = "Mul" -> "Deref"
    IN  CASE ~s.ok -> Fail(s.P)
          [] s.ok /\ kind \in {"Add", "Sub", "Amp", "Mul"} ->
                IF e.ok THEN Ret(e.P, UnaryExpr(o, e.v, make_span(e.P, s.v)))
                ELSE Fail(e.P)
          [] OTHER -> Call("parse_expr1", s.P)

\* A faulty ladder: the additive operators sit on the rung of the
\* multiplicative ones and the other way round.
LevelOps_additive_first(level) ==
    CASE level = 3 -> {<<"Add", "Add">>, <<"Sub", "Sub">>}
      [] level = 4 -> {<<"Mul", "Mul">>, <<"Div", "Div">>, <<"Mod", "Mod">>}
      [] level = 5 -> {<<"Lt", "Lt">>, <<"Gt", "Gt">>, <<"Lte", "Lte">>,
                       <<"Gte", "Gte">>}
      [] level = 6 -> {<<"EqEq", "Eq">>, <<"Neq", "Neq">>}
      [] level = 7 -> {<<"And", "And">>}
      [] level = 8 -> {<<"Or", "Or">>}

\* the operators of one rung of the ladder: token kind -> BinaryExpr::Op
LevelOps(level) ==
    CASE level = 3 -> {<<"Mul", "Mul">>, <<"Div", "Div">>, <<"Mod", "Mod">>}
      [] level = 4 -> {<<"Add", "Add">>, <<"Sub", "Sub">>}
      [] level = 5 -> {<<"Lt", "Lt">>, <<"Gt", "Gt">>, <<"Lte", "Lte">>,
                       <<"Gte", "Gte">>}
      [] level = 6 -> {<<"EqEq", "Eq">>, <<"Neq", "Neq">>}
      [] level = 7 -> {<<"And", "And">>}
      [] level = 8 -> {<<"Or", "Or">>}

\* parse_expr<level - 1>, the operand parser of a rung: parse_expr2 below
\* rung 3, the rung below otherwise
Operand(level, P) ==
    IF level = 3 THEN Call("parse_expr2", P) ELSE parse_rung(level - 1, P)

\* the loop `while (true)` shared by parse_expr3 .. parse_expr8
parse_binary_loop(level, P, start, expr) ==
    LET t == peek(P) IN
    IF ~t.ok THEN Fail(t.P)
    ELSE IF \E o \in LevelOps(level) : o[1] = t.v.kind
    THEN LET o == CHOOSE o \in LevelOps(level) : o[1] = t.v.kind
             n == next(t.P)
             right == Operand(level, n.P)
         IN  IF ~right.ok THEN Fail(right.P)
             ELSE parse_binary_loop(level, right.P, start,
                      BinaryExpr(o[2], expr, right.v, make_span(right.P, start)))
    ELSE Ret(t.P, expr)

parse_rung(level, P) ==
    LET s == start_loc(P)
        e == Operand(level, s.P)
    IN  IF s.ok /\ e.ok THEN parse_binary_loop(level, e.P, s.v, e.v)
        ELSE IF s.ok THEN Fail(e.P) ELSE Fail(s.P)

parse_expr3(P) == parse_rung(3, P)
parse_expr4(P) == parse_rung(4, P)
parse_expr5(P) == parse_rung(5, P)
parse_expr6(P) == parse_rung(6, P)
parse_expr7(P) == parse_rung(7, P)
parse_expr8(P) == parse_rung(8, P)

AssignMode(kind) ==
    CASE kind = "Eq" -> "Assign" [] kind = "AddEq" -> "Add"
      [] kind = "SubEq" -> "Sub" [] kind = "MulEq" -> "Mul"
      [] kind = "DivEq" -> "Div" [] kind = "ModEq" -> "Mod"

\* the loop `while (true)` of parse_expr9: [exprs, rhs]
parse_expr9_loop(P, exprs, rhs) ==
    LET t == peek(P) IN
    IF ~t.ok THEN Fail(t.P)
    ELSE IF t.v.kind \in {"Eq", "AddEq", "SubEq", "MulEq", "DivEq", "ModEq"}
    THEN LET n == next(t.P)
             r == Call("parse_expr8", n.P)
         IN  IF ~r.ok THEN Fail(r.P)
             ELSE parse_expr9_loop(r.P,
                      Append(exprs, [first |-> AssignMode(t.v.kind), second |-> rhs]),
                      r.v)
    ELSE Ret(t.P, [exprs |-> exprs, rhs |-> rhs])

RECURSIVE FoldAssign(_, _, _)
FoldAssign(exprs, rhs, span) ==
    IF exprs = <<>> THEN rhs
    ELSE LET e == exprs[Len(exprs)] IN
         FoldAssign(SubSeq(exprs, 1, Len(exprs) - 1),
                    AssignExpr(e.first, e.second, rhs, span), span)

parse_expr9(P) ==
    LET s == start_loc(P)
        e == Call("parse_expr8", s.P)
        l == parse_expr9_loop(e.P, <<>>, e.v)
    IN  IF s.ok /\ e.ok
        THEN IF l.ok
             THEN Ret(l.P, FoldAssign(l.v.exprs, l.v.rhs, make_span(l.P, s.v)))
             ELSE Fail(l.P)
        ELSE IF s.ok THEN Fail(e.P) ELSE Fail(s.P)

parse_expr(P) ==
    LET s == start_loc(P)
        kind == peek(s.P).v.kind
    IN
    CASE ~s.ok -> Fail(s.P)
      [] s.ok /\ kind = "If" -> Call("parse_ite_expr", s.P)
      [] s.ok /\ kind = "Switch" -> Call("parse_switch_expr", s.P)
      [] s.ok /\ kind = "For" -> Call("parse_for_expr", s.P)
      [] s.ok /\ kind = "While" -> Call("parse_while_expr", s.P)
      [] s.ok /\ kind = "Loop" -> Call("parse_loop_expr", s.P)
      [] s.ok /\ kind = "LBrace" -> Call("parse_block_expr", s.P)
      [] s.ok /\ kind = "Break" ->
            LET n == next(s.P) IN
            Ret(n.P, [k |-> "Break", span |-> make_span(n.P, s.v)])
      [] s.ok /\ kind = "Continue" ->
            LET n == next(s.P) IN
            Ret(n.P, [k |-> "Continue", span |-> make_span(n.P, s.v)])
      [] s.ok /\ kind = "Return" ->
            LET n == next(s.P)
                e == Call("parse_expr", n.P)        \* try { ... } catch (...) { nullopt }
                expr == IF e.ok THEN Some(e.v) ELSE None
            IN  Ret(e.P, ReturnExpr(expr, make_span(e.P, s.v)))
      [] OTHER ->
            LET P1 == PushCp(s.P)
                lam == Call("parse_lam_expr", P1)
                b == RestoreCp(lam.P)
            IN  CASE lam.ok -> Ret(PopCp(lam.P), lam.v)
                  [] ~lam.ok /\ b.ok -> Call("parse_expr9", b.P)
                  [] OTHER -> Fail(b.P)

parse_cond(P) ==
    LET s == start_loc(P) IN
    IF ~s.ok THEN Fail(s.P)
    ELSE IF peek(s.P).v.kind = "Let"
    THEN LET n == next(s.P)
             pat == Call("parse_pat", n.P)
         IN  IF ~pat.ok THEN Fail(pat.P) ELSE
             LET e == expect(pat.P, "Eq") IN
             IF ~e.ok THEN Fail(e.P) ELSE
             LET x == Call("parse_expr", e.P) IN
             IF ~x.ok THEN Fail(x.P)
             ELSE Ret(x.P, [k |-> "Case", pat |-> pat.v, expr |-> x.v,
                            span |-> make_span(x.P, s.v)])
    ELSE LET x == Call("parse_expr", s.P) IN
         IF ~x.ok THEN Fail(x.P)
         ELSE Ret(x.P, [k |-> "Expr", expr |-> x.v, span |-> make_span(x.P, s.v)])

IteThen(cond, then_branch) == [cond |-> cond, then_branch |-> then_branch]

\* the loop `while (peek() == Else)` of parse_ite_expr
parse_ite_loop(P, then_branches, else_branch) ==
    LET t == peek(P) IN
    IF ~t.ok THEN Fail(t.P)
    ELSE IF t.v.kind # "Else"
    THEN Ret(t.P, [then_branches |-> then_branches, else_branch |-> else_branch])
    ELSE LET n == next(t.P)
             i == peek(n.P)
         IN  IF ~i.ok THEN Fail(i.P)
             ELSE IF i.v.kind = "If"
             THEN LET m == next(i.P)
                      cond == Call("parse_cond", m.P)
                  IN  IF ~cond.ok THEN Fail(cond.P) ELSE
                      LET b == Call("parse_block_expr", cond.P) IN
                      IF ~b.ok THEN Fail(b.P)
                      ELSE parse_ite_loop(b.P,
                               Append(then_branches, IteThen(cond.v, b.v)),
                               else_branch)
             ELSE LET b == Call("parse_block_expr", i.P) IN
                  IF ~b.ok THEN Fail(b.P)
                  ELSE parse_ite_loop(b.P, then_branches, Some(b.v))

parse_ite_expr(P) ==
    LET s == start_loc(P) IN
    IF ~s.ok THEN Fail(s.P) ELSE
    LET e == expect(s.P, "If") IN
    IF ~e.ok THEN Fail(e.P) ELSE
    LET cond == Call("parse_cond", e.P) IN
    IF ~cond.ok THEN Fail(cond.P) ELSE
    LET b == Call("parse_block_expr", cond.P) IN
    IF ~b.ok THEN Fail(b.P) ELSE
    LET l == parse_ite_loop(b.P, <<IteThen(cond.v, b.v)>>, None) IN
    IF ~l.ok THEN Fail(l.P)
    ELSE Ret(l.P, IteExpr(l.v.then_branches, l.v.else_branch, make_span(l.P, s.v)))

\* the statement loop of a clause, bounded by case / default / '}'
parse_clause_stmts(P, stmts) ==
    LET t == peek(P) IN
    IF ~t.ok THEN Fail(t.P)
    ELSE IF t.v.kind \in {"Case", "Default", "RBrace"} THEN Ret(t.P, stmts)
    ELSE LET st == Call("parse_stmt", t.P) IN
         IF ~st.ok THEN Fail(st.P)
         ELSE parse_clause_stmts(st.P, Append(stmts, st.v))

parse_clause(P) ==
    LET s == start_loc(P) IN
    IF ~s.ok THEN Fail(s.P) ELSE
    LET kind == peek(s.P).v.kind IN
    IF kind = "Case"
    THEN LET n == next(s.P)
             pat == Call("parse_pat(false)", n.P)
         IN  IF ~pat.ok THEN Fail(pat.P) ELSE
             LET t == peek(pat.P) IN
             IF ~t.ok THEN Fail(t.P) ELSE
             LET g == IF t.v.kind = "If"
                      THEN LET x == Call("parse_expr", next(t.P).P) IN
                           IF x.ok THEN Ret(x.P, Some(x.v)) ELSE Fail(x.P)
                      ELSE Ret(t.P, None)
             IN  IF ~g.ok THEN Fail(g.P) ELSE
                 LET e == expect(g.P, "Col") IN
                 IF ~e.ok THEN Fail(e.P) ELSE
                 LET bs == start_loc(e.P) IN
                 IF ~bs.ok THEN Fail(bs.P) ELSE
                 LET ss == parse_clause_stmts(bs.P, <<>>) IN
                 IF ~ss.ok THEN Fail(ss.P)
                 ELSE Ret(ss.P, [k |-> "Case", pat |-> pat.v, guard |-> g.v,
                                 expr |-> BlockExpr(ss.v, make_span(ss.P, bs.v)),
                                 span |-> make_span(ss.P, s.v)])
    ELSE IF kind = "Default"
    THEN LET n == next(s.P)
             e == expect(n.P, "Col")
         IN  IF ~e.ok THEN Fail(e.P) ELSE
             LET bs == start_loc(e.P) IN
             IF ~bs.ok THEN Fail(bs.P) ELSE
             LET ss == parse_clause_stmts(bs.P, <<>>) IN
             IF ~ss.ok THEN Fail(ss.P)
             ELSE Ret(ss.P, [k |-> "Default",
                             expr |-> BlockExpr(ss.v, make_span(ss.P, bs.v)),
                             span |-> make_span(ss.P, s.v)])
    ELSE Fail(s.P)

parse_switch_loop(P, clauses) ==
    LET t == peek(P) IN
    IF ~t.ok THEN Fail(t.P)
    ELSE IF t.v.kind = "RBrace" THEN Ret(t.P, clauses)
    ELSE LET c == Call("parse_clause", t.P) IN
         IF ~c.ok THEN Fail(c.P) ELSE parse_switch_loop(c.P, Append(clauses, c.v))

parse_switch_expr(P) ==
    LET s == start_loc(P) IN
    IF ~s.ok THEN Fail(s.P) ELSE
    LET e == expect(s.P, "Switch") IN
    IF ~e.ok THEN Fail(e.P) ELSE
    LET x == Call("parse_expr", e.P) IN
    IF ~x.ok THEN Fail(x.P) ELSE
    LET o == expect(x.P, "LBrace") IN
    IF ~o.ok THEN Fail(o.P) ELSE
    LET cs == parse_switch_loop(o.P, <<>>) IN
    IF ~cs.ok THEN Fail(cs.P) ELSE
    LET c == expect(cs.P, "RBrace") IN
    IF ~c.ok THEN Fail(c.P)
    ELSE Ret(c.P, [k |-> "Switch", expr |-> x.v, clauses |-> cs.v,
                   span |-> make_span(c.P, s.v)])

parse_for_expr(P) ==
    LET s == start_loc(P) IN
    IF ~s.ok THEN Fail(s.P) ELSE
    LET e == expect(s.P, "For") IN
    IF ~e.ok THEN Fail(e.P) ELSE
    LET pat == Call("parse_pat_basic", e.P) IN
    IF ~pat.ok THEN Fail(pat.P) ELSE
    LET i == expect(pat.P, "In") IN
    IF ~i.ok THEN Fail(i.P) ELSE
    LET x == Call("parse_expr", i.P) IN
    IF ~x.ok THEN Fail(x.P) ELSE
    LET b == Call("parse_block_expr", x.P) IN
    IF ~b.ok THEN Fail(b.P)
    ELSE Ret(b.P, [k |-> "For", pat |-> pat.v, expr |-> x.v, body |-> b.v,
                   span |-> make_span(b.P, s.v)])

parse_while_expr(P) ==
    LET s == start_loc(P) IN
    IF ~s.ok THEN Fail(s.P) ELSE
    LET e == expect(s.P, "While") IN
    IF ~e.ok THEN Fail(e.P) ELSE
    LET cond == Call("parse_cond", e.P) IN
    IF ~cond.ok THEN Fail(cond.P) ELSE
    LET b == Call("parse_block_expr", cond.P) IN
    IF ~b.ok THEN Fail(b.P)
    ELSE Ret(b.P, [k |-> "While", cond |-> cond.v, body |-> b.v,
                   span |-> make_span(b.P, s.v)])

parse_loop_expr(P) ==
    LET s == start_loc(P) IN
    IF ~s.ok THEN Fail(s.P) ELSE
    LET e == expect(s.P, "Loop") IN
    IF ~e.ok THEN Fail(e.P) ELSE
    LET b == Call("parse_block_expr", e.P) IN
    IF ~b.ok THEN Fail(b.P)
    ELSE Ret(b.P, [k |-> "Loop", body |-> b.v, span |-> make_span(b.P, s.v)])

parse_block_loop(P, stmts) ==
    LET t == peek(P) IN
    IF ~t.ok THEN Fail(t.P)
    ELSE IF t.v.kind = "RBrace" THEN Ret(t.P, stmts)
    ELSE LET st == Call("parse_stmt", t.P) IN
         IF ~st.ok THEN Fail(st.P)
         ELSE parse_block_loop(st.P, Append(stmts, st.v))

parse_block_expr(P) ==
    LET s == start_loc(P) IN
    IF ~s.ok THEN Fail(s.P) ELSE
    LET e == expect(s.P, "LBrace") IN
    IF ~e.ok THEN Fail(e.P) ELSE
    LET ss == parse_block_loop(e.P, <<>>) IN
    IF ~ss.ok THEN Fail(ss.P) ELSE
    LET c == expect(ss.P, "RBrace") IN
    IF ~c.ok THEN Fail(c.P)
    ELSE Ret(c.P, BlockExpr(ss.v, make_span(c.P, s.v)))

NodeImport(name, nested, span) ==
    [k |-> "Node", name |-> name, nested |-> nested, span |-> span]
AliasImport(name, alias, span) ==
    [k |-> "Alias", name |-> name, alias |-> alias, span |-> span]
WildImport(span) == [k |-> "Wild", span |-> span]

parse_import(P) ==
    LET s == start_loc(P) IN
    IF ~s.ok THEN Fail(s.P) ELSE
    LET kind == peek(s.P).v.kind IN
    IF kind = "Id"
    THEN LET name == Call("parse_ident", s.P) IN
         IF ~name.ok THEN Fail(name.P) ELSE
         LET t == peek(name.P) IN
         IF ~t.ok THEN Fail(t.P)
         ELSE IF t.v.kind = "Dot"
         THEN LET n == next(t.P)
                  b == peek(n.P)
              IN  IF ~b.ok THEN Fail(b.P)
                  ELSE IF b.v.kind = "LBrace"
                  THEN LET m == next(b.P)
                           nested == parse_sep(m.P, "parse_import", "Comma", TRUE, 1)
                       IN  IF ~nested.ok THEN Fail(nested.P) ELSE
                           LET c == expect(nested.P, "RBrace") IN
                           IF ~c.ok THEN Fail(c.P)
                           ELSE Ret(c.P, NodeImport(name.v, nested.v,
                                                    make_span(c.P, s.v)))
                  ELSE LET i == Call("parse_import", b.P) IN
                       IF ~i.ok THEN Fail(i.P)
                       ELSE Ret(i.P, NodeImport(name.v, <<i.v>>,
                                                make_span(i.P, s.v)))
         ELSE IF t.v.kind = "As"
         THEN LET n == next(t.P)
                  a == peek(n.P)
              IN  IF ~a.ok THEN Fail(a.P)
                  ELSE IF a.v.kind = "Wild"
                  THEN LET m == next(a.P) IN
                       Ret(m.P, AliasImport(name.v, None, make_span(m.P, s.v)))
                  ELSE IF a.v.kind = "Id"
                  THEN LET alias == Call("parse_ident", a.P) IN
                       Ret(alias.P, AliasImport(name.v, Some(alias.v),
                                                make_span(alias.P, s.v)))
                  ELSE Fail(a.P)
         ELSE Ret(t.P, NodeImport(name.v, <<>>, make_span(t.P, s.v)))
    ELSE IF kind = "Mul"
    THEN LET n == next(s.P) IN Ret(n.P, WildImport(make_span(n.P, s.v)))
    ELSE Fail(s.P)

Stmt(k, body, span) == [k |-> k, body |-> body, attrs |-> <<>>, span |-> span]

parse_open_stmt(P) ==
    LET s == start_loc(P) IN
    IF ~s.ok THEN Fail(s.P) ELSE
    LET e == expect(s.P, "Open") IN
    IF ~e.ok THEN Fail(e.P) ELSE
    LET i == Call("parse_import", e.P) IN
    IF ~i.ok THEN Fail(i.P) ELSE
    LET c == expect(i.P, "Semi") IN
    IF ~c.ok THEN Fail(c.P)
    ELSE Ret(c.P, Stmt("Open", [import |-> i.v], make_span(c.P, s.v)))

parse_let_stmt(P) ==
    LET s == start_loc(P) IN
    IF ~s.ok THEN Fail(s.P) ELSE
    LET e == expect(s.P, "Let") IN
    IF ~e.ok THEN Fail(e.P) ELSE
    LET pat == Call("parse_pat_basic", e.P) IN
    IF ~pat.ok THEN Fail(pat.P) ELSE
    LET t == peek(pat.P) IN
    IF ~t.ok THEN Fail(t.P) ELSE
    LET st ==
          IF t.v.kind = "Eq"
          THEN LET x == Call("parse_expr", next(t.P).P) IN
               IF ~x.ok THEN Fail(x.P) ELSE
               LET l == peek(x.P) IN
               IF ~l.ok THEN Fail(l.P)
               ELSE IF l.v.kind = "Else"
               THEN LET b == Call("parse_block_expr", next(l.P).P) IN
                    IF ~b.ok THEN Fail(b.P)
                    ELSE Ret(b.P, Stmt("Let", [pat |-> pat.v, expr |-> x.v,
                                               else_expr |-> Some(b.v)],
                                       make_span(b.P, s.v)))
               ELSE Ret(l.P, Stmt("Let", [pat |-> pat.v, expr |-> x.v,
                                          else_expr |-> None],
                                  make_span(l.P, s.v)))
          ELSE IF t.v.kind = "LArrow"
          THEN LET x == Call("parse_expr", next(t.P).P) IN
               IF ~x.ok THEN Fail(x.P)
               ELSE Ret(x.P, Stmt("Bind", [pat |-> pat.v, expr |-> x.v],
                                  make_span(x.P, s.v)))
          ELSE Fail(t.P)
    IN  IF ~st.ok THEN Fail(st.P) ELSE
        LET c == expect(st.P, "Semi") IN
        IF ~c.ok THEN Fail(c.P) ELSE Ret(c.P, st.v)

parse_func_stmt(P) ==
    LET s == start_loc(P) IN
    IF ~s.ok THEN Fail(s.P) ELSE
    LET e == expect(s.P, "Func") IN
    IF ~e.ok THEN Fail(e.P) ELSE
    LET ident == Call("parse_ident", e.P) IN
    IF ~ident.ok THEN Fail(ident.P) ELSE
    LET o == expect(ident.P, "LParen") IN
    IF ~o.ok THEN Fail(o.P) ELSE
    LET params == parse_sep(o.P, "parse_pat", "Comma", FALSE, 0) IN
    IF ~params.ok THEN Fail(params.P) ELSE
    LET c == expect(params.P, "RParen") IN
    IF ~c.ok THEN Fail(c.P) ELSE
    LET t == peek(c.P) IN
    IF ~t.ok THEN Fail(t.P) ELSE
    LET rt == IF t.v.kind = "RArrow" THEN Call("parse_type", next(t.P).P)
              ELSE Ret(t.P, MetaType(EmptySpan))
    IN  IF ~rt.ok THEN Fail(rt.P) ELSE
        LET b == Call("parse_block_expr", rt.P) IN
        IF ~b.ok THEN Fail(b.P)
        ELSE Ret(b.P, Stmt("Func", [ident |-> ident.v, params |-> params.v,
                                    return_type |-> rt.v, body |-> b.v],
                           make_span(b.P, s.v)))

\* the loop `while (peek() == At)` of parse_attrs
parse_attrs_loop(P, attrs) ==
    LET t == peek(P) IN
    IF ~t.ok THEN Fail(t.P)
    ELSE IF t.v.kind # "At" THEN Ret(t.P, attrs)
    ELSE LET a == Call("parse_expr", next(t.P).P) IN
         IF ~a.ok THEN Fail(a.P) ELSE parse_attrs_loop(a.P, Append(attrs, a.v))

parse_attrs(P) == parse_attrs_loop(P, <<>>)

parse_stmt(P) ==
    LET s == start_loc(P) IN
    IF ~s.ok THEN Fail(s.P) ELSE
    LET attrs == Call("parse_attrs", s.P) IN
    IF ~attrs.ok THEN Fail(attrs.P) ELSE
    LET kind == peek(attrs.P).v.kind
        st == CASE kind = "Open" -> Call("parse_open_stmt", attrs.P)
                [] kind = "Let" -> Call("parse_let_stmt", attrs.P)
                [] kind = "Func" -> Call("parse_func_stmt", attrs.P)
                [] OTHER ->
                     LET x == Call("parse_expr", attrs.P) IN
                     IF ~x.ok THEN Fail(x.P) ELSE
                     LET t == peek(x.P) IN
                     IF ~t.ok THEN Fail(t.P)
                     ELSE IF t.v.kind = "Semi"
                     THEN LET n == next(t.P) IN
                          Ret(n.P, Stmt("Expr", [expr |-> x.v, is_val |-> FALSE],
                                        make_span(n.P, s.v)))
                     ELSE Ret(t.P, Stmt("Expr", [expr |-> x.v, is_val |-> TRUE],
                                        make_span(t.P, s.v)))
    IN  IF ~st.ok THEN Fail(st.P)
        ELSE Ret(st.P, [st.v EXCEPT !.attrs = attrs.v])

(***************************************************************************)
(*                   THE LEXER UNDER AN ARBITRARY CLIENT                   *)
(* The client calls peek, next, push_checkpoint, pop_checkpoint and        *)
(* restore_checkpoint in any order on a lexer over a bounded input.        *)
(***************************************************************************)

MaxWords == 2
MaxDepth == 2

\* the fragments the inputs are built from: an identifier, a number, a
\* newline, a character literal, a two-character operator, a string that
\* is never closed (a lexical error)
LexWords ==
    { <<"a">>, <<"1", "2">>, <<"NL">>, <<"SQ", "c", "SQ">>, <<"=", ">">>,
      <<"DQ">> }

RECURSIVE Concats(_, _)
Concats(words, n) ==
    IF n = 0 THEN { <<>> }
    ELSE LET shorter == Concats(words, n - 1) IN
         shorter \cup { w \o r : w \in words, r \in shorter }

LexInputs == Concats(LexWords, MaxWords)

Idle == [name |-> "init", ok |-> TRUE]

NoTable == <<>>

Init ==
    /\ parser \in { Parser(i) : i \in LexInputs }
    /\ pushed = <<>>
    /\ op = Idle
    /\ table = NoTable
    /\ tlast = Idle
    /\ builder = Idle

LexerPeek ==
    LET r == Call("LexPeek", parser.lexer) IN
    /\ parser' = [parser EXCEPT !.lexer = r.L]
    /\ op' = [name |-> "peek", ok |-> r.ok]
    /\ UNCHANGED <<pushed, table, tlast, builder>>

LexerNext ==
    LET r == Call("LexNext", parser.lexer) IN
    /\ parser' = [parser EXCEPT !.lexer = r.L]
    /\ op' = [name |-> "next", ok |-> r.ok]
    /\ UNCHANGED <<pushed, table, tlast, builder>>

\* pushed remembers, for every checkpoint still open, the lexer state and
\* the stack depth just before the push
PushCheckpoint ==
    /\ Len(parser.lexer.checkpoints) < MaxDepth
    /\ parser' = [parser EXCEPT !.lexer = push_checkpoint(@)]
    /\ pushed' = Append(pushed, [state |-> parser.lexer.state,
                                 depth |-> Len(parser.lexer.checkpoints)])
    /\ op' = [name |-> "push_checkpoint", ok |-> TRUE]
    /\ UNCHANGED <<table, tlast, builder>>

PopCheckpoint ==
    /\ parser.lexer.checkpoints # <<>>
    /\ parser' = [parser EXCEPT !.lexer = pop_checkpoint(@)]
    /\ pushed' = SubSeq(pushed, 1, Len(pushed) - 1)
    /\ op' = [name |-> "pop_checkpoint", ok |-> TRUE]
    /\ UNCHANGED <<table, tlast, builder>>

RestoreCheckpoint ==
    LET r == restore_checkpoint(parser.lexer) IN
    /\ parser' = [parser EXCEPT !.lexer = r.L]
    /\ pushed' = SubSeq(pushed, 1, Len(pushed) - 1)
    /\ op' = IF pushed = <<>>
             THEN [name |-> "restore_checkpoint", ok |-> r.ok]
             ELSE [name |-> "restore_checkpoint", ok |-> r.ok,
                   before |-> parser.lexer.state,
                   at_push |-> pushed[Len(pushed)]]
    /\ UNCHANGED <<table, tlast, builder>>

Next ==
    \/ LexerPeek
    \/ LexerNext
    \/ PushCheckpoint
    \/ PopCheckpoint
    \/ RestoreCheckpoint

Spec == Init /\ [][Next]_vars

\* C4: a checkpoint round-trips.  After restore_checkpoint every field of
\* the lexer state (pos, line, column, lexeme, int_value, char_value,
\* has_token, current_token, token_start) equals its value just before the
\* matching push_checkpoint, whatever was lexed, pushed or popped in
\* between, and the checkpoint stack is as deep as it was before that push.
C4_CheckpointRoundTrip ==
    (op.name = "restore_checkpoint" /\ op.ok) =>
        /\ parser.lexer.state.pos = op.at_push.state.pos
        /\ parser.lexer.state.line = op.at_push.state.line
        /\ parser.lexer.state.column = op.at_push.state.column
        /\ parser.lexer.state.lexeme = op.at_push.state.lexeme
        /\ parser.lexer.state.int_value = op.at_push.state.int_value
        /\ parser.lexer.state.char_value = op.at_push.state.char_value
        /\ parser.lexer.state.has_token = op.at_push.state.has_token
        /\ parser.lexer.state.current_token = op.at_push.state.current_token
        /\ parser.lexer.state.token_start = op.at_push.state.token_start
        /\ Len(parser.lexer.checkpoints) = op.at_push.depth

\* a restore of a nested checkpoint after the lexer moved to another line,
\* lexed a number and dropped its lookahead token
C4_Witness ==
    /\ op.name = "restore_checkpoint" /\ op.ok
    /\ op.at_push.depth = 1
    /\ op.before.line # op.at_push.state.line
    /\ op.before.int_value # op.at_push.state.int_value
    /\ op.before.lexeme # op.at_push.state.lexeme
    /\ op.before.has_token # op.at_push.state.has_token
    /\ op.before.current_token # op.at_push.state.current_token

(***************************************************************************)
(*                   THE PARSER UNDER AN ARBITRARY CLIENT                  *)
(* The client skips some tokens of a bounded input with next and then      *)
(* calls one parse function; parse_type_args is also called where the      *)
(* parser calls it, right after parse_name.  op records the call, the      *)
(* parser as it was on entry, and what the call returned or that it threw. *)
(***************************************************************************)

MaxToks == 3

\* the fragments the bodies are built from
ParseWords ==
    { <<"a">>, <<"<", "b">>, <<">">>, <<",", "SP", "1">>, <<"SP", "+">> }

\* switch a{default: }
SWITCH_DEFAULT ==
    << "s", "w", "i", "t", "c", "h", "SP", "a", "{",
       "d", "e", "f", "a", "u", "l", "t", ":", "SP", "}" >>

\* a body alone, a shorter body (or `a<b, 1`) as the arguments of a call
\* and after return, and a switch whose one clause has no statement
ParseInputs ==
    LET bodies == Concats(ParseWords, MaxToks)
        args == Concats(ParseWords, MaxToks - 1)
                    \cup { <<"a", "<", "b", ",", "SP", "1">> }
    IN
    bodies
    \cup { SWITCH_DEFAULT }
    \cup { <<"f", "(">> \o b \o <<")">> : b \in args }
    \cup { <<"r", "e", "t", "u", "r", "n", "SP">> \o b \o <<";">> : b \in args }

InitParser ==
    /\ parser \in { Parser(i) : i \in ParseInputs }
    /\ pushed = <<>>
    /\ op = Idle
    /\ table = NoTable
    /\ tlast = Idle
    /\ builder = Idle

\* the call returned or threw r: [ok, P, v]
Called(name, r) ==
    /\ op.ok
    /\ IF name = "parse_type_args" THEN op.name = "parse_name"
       ELSE op.name \in {"init", "next"}
    /\ parser' = r.P
    /\ op' = [name |-> name, ok |-> r.ok, pre |-> parser, v |-> r.v]
    /\ UNCHANGED <<pushed, table, tlast, builder>>

\* the member functions the client calls
MemberFns ==
    { "next", "parse_name", "parse_type_args", "parse_type", "parse_pat",
      "parse_expr", "parse_stmt" }

ParserCall == \E fn \in MemberFns : Called(fn, Call(fn, parser))

NextParser == ParserCall

SpecParser == InitParser /\ [][NextParser]_vars

\* the lexer of P after the peek() every parse function starts with
Entry(P) == LexPeek(P.lexer)

\* C1: type-argument speculation is clean on every exit path.  Whatever
\* follows the identifier, parse_type_args either commits (it returns the
\* type arguments) or leaves the lexer state exactly as it was at entry,
\* `<` still the next token; and in both cases, also when it throws, the
\* checkpoint stack is as deep as it was at entry.
C1_TypeArgsClean ==
    (op.name = "parse_type_args" /\ Entry(op.pre).ok) =>
        /\ Len(parser.lexer.checkpoints) = Len(op.pre.lexer.checkpoints)
        /\ \/ op.ok /\ op.v # None
           \/ parser.lexer.state = Entry(op.pre).L.state

\* the token kinds parse_expr handles without trying the lambda form
ControlKinds ==
    { "If", "Switch", "For", "While", "Loop", "LBrace", "Break", "Continue",
      "Return" }

F_A_LT_B_1 == <<"f", "(", "a", "<", "b", ",", "SP", "1", ")">>
F_A_PLUS == <<"f", "(", "a", "SP", "+", ")">>
RETURN_A_PLUS == <<"r", "e", "t", "u", "r", "n", "SP", "a", "SP", "+", ";">>

\* the call recorded in op was made on the whole input i
OnWhole(i) == op.pre.lexer.input = i /\ op.pre.lexer.state = State0

\* C2: a failed lambda attempt of parse_expr leaves no trace.  When
\* parse_lam_expr throws, restore_checkpoint gives back exactly the lexer
\* state and the checkpoint stack parse_expr had when it pushed, so
\* parse_expr9 starts at the token the attempt started at; and f(a<b, 1) is
\* parsed as the application of f to the two arguments a<b and 1.
C2_LambdaFallback ==
    LET entry == peek(op.pre)
        lam == Call("parse_lam_expr", PushCp(entry.P))
        back == RestoreCp(lam.P)
    IN  /\ (/\ op.name = "parse_expr"
            /\ entry.ok
            /\ entry.v.kind \notin ControlKinds
            /\ ~lam.ok)
           => /\ back.P.lexer.state = entry.P.lexer.state
              /\ back.P.lexer.checkpoints = entry.P.lexer.checkpoints
        /\ (op.name = "parse_expr" /\ OnWhole(F_A_LT_B_1))
           => /\ op.ok
              /\ op.v.k = "App"
              /\ Len(op.v.args) = 2
              /\ op.v.args[1].k = "Binary"
              /\ op.v.args[2].k = "Lit"

\* C3: a parse error outside a speculative region reaches the caller.  The
\* operand of a return that begins to parse and then meets an unexpected
\* token makes parse_expr throw, and so does a call argument that does:
\* f(a +) and return a +; are rejected.
C3_ErrorsPropagate ==
    LET entry == peek(op.pre)
        first == peek(next(entry.P).P)
        operand == Call("parse_expr", first.P)
    IN  /\ (/\ op.name = "parse_expr"
            /\ entry.ok
            /\ entry.v.kind = "Return"
            /\ first.ok
            /\ ~operand.ok
            /\ operand.P.lexer.state.token_start # first.v.span.start)
           => ~op.ok
        /\ (op.name = "parse_expr" /\ OnWhole(F_A_PLUS)) => ~op.ok
        /\ (op.name = "parse_stmt" /\ OnWhole(RETURN_A_PLUS)) => ~op.ok

(***************************************************************************)
(*                            SYMBOL TABLE                                 *)
(* A TableNode* is the index of the node in Table.nodes, 0 is nullptr.     *)
(* A std::map is a function on the set of its keys; an entry may hold the  *)
(* empty set, which is what operator[] leaves behind for a key it did not  *)
(* find.  A Symbol path and a TableNode path are the sequence of the       *)
(* identifiers that the C++ string joins with ".".                         *)
(***************************************************************************)

Symbol(kind, access) == [access |-> access, kind |-> kind, path |-> <<>>]

EmptyMap == [k \in {} |-> {}]

TableNode(kind, ident) ==
    [kind |-> kind, ident |-> ident, path |-> <<>>, counter |-> 0,
     types |-> EmptyMap, exprs |-> EmptyMap, nested |-> EmptyMap,
     parent |-> 0]

\* Table::Table: the root is a Module node whose path is its identifier
Table(ident) ==
    [nodes |-> << [TableNode("Module", ident) EXCEPT !.path = <<ident>>] >>,
     active |-> 1]

\* m[k] of a std::map, and the map after m[k] was evaluated
MapAt(m, k) == IF k \in DOMAIN m THEN m[k] ELSE {}
MapPut(m, k, v) == [x \in DOMAIN m \cup {k} |-> IF x = k THEN v ELSE m[x]]

\* std::set<Symbol>::insert of the symbols of src: operator< compares kind
\* and path only, so a symbol whose kind and path are already in the set
\* is dropped, whatever its access
insert(set, src) ==
    set \cup { s \in src :
                 \A t \in set : ~(t.kind = s.kind /\ t.path = s.path) }

TOk(T, v) == [ok |-> TRUE, T |-> T, v |-> v]
TThrow(T) == [ok |-> FALSE, T |-> T, v |-> <<>>]

\* TableNode::find_type_symbol and TableNode::find_expr_symbol on the map
\* `field` of node n: the entry must exist and hold exactly one symbol
TableNode_find_symbol(T, n, field, ident) ==
    LET m == T.nodes[n][field] IN
    IF ident \notin DOMAIN m THEN TThrow(T)
    ELSE IF Cardinality(m[ident]) # 1 THEN TThrow(T)
    ELSE TOk(T, CHOOSE s \in m[ident] : TRUE)

\* throw std::runtime_error(what + ident): the value is the message
TThrowWhat(T, what) == [ok |-> FALSE, T |-> T, v |-> what]

find_node(T, n, ident) ==
    LET m == T.nodes[n].nested IN
    IF ident \notin DOMAIN m THEN TThrowWhat(T, "Node not found")
    ELSE IF Cardinality(m[ident]) # 1 THEN TThrowWhat(T, "Ambiguous node")
    ELSE TOk(T, CHOOSE c \in m[ident] : TRUE)

add_node(T, ident, kind) ==
    LET a == T.nodes[T.active]
        id == Len(T.nodes) + 1
        node == [TableNode(kind, ident) EXCEPT
                    !.parent = T.active,
                    !.path = Append(a.path, ident)]
    IN  [T EXCEPT
           !.nodes = Append([@ EXCEPT ![T.active].nested =
                                 MapPut(@, ident, MapAt(@, ident) \cup {id})],
                            node)]

enter_node(T, ident) ==
    LET r == find_node(T, T.active, ident) IN
    IF ~r.ok THEN TThrow(T) ELSE TOk([T EXCEPT !.active = r.v], <<>>)

exit_node(T) ==
    IF T.nodes[T.active].parent # 0
    THEN TOk([T EXCEPT !.active = T.nodes[T.active].parent], <<>>)
    ELSE TThrow(T)

\* add_type_symbol with the symbol's path set to the bare identifier
add_type_symbol_unqualified(T, ident, symbol) ==
    LET s == [symbol EXCEPT !.path = <<ident>>]
    IN  [T EXCEPT !.nodes[T.active].types =
                      MapPut(@, ident, insert(MapAt(@, ident), {s}))]

add_type_symbol(T, ident, symbol) ==
    LET s == [symbol EXCEPT
                 !.path = Append(T.nodes[T.active].path, ident)]
    IN  [T EXCEPT !.nodes[T.active].types =
                      MapPut(@, ident, insert(MapAt(@, ident), {s}))]

add_expr_symbol(T, ident, symbol) ==
    LET s == [symbol EXCEPT
                 !.path = Append(T.nodes[T.active].path, ident)]
    IN  [T EXCEPT !.nodes[T.active].exprs =
                      MapPut(@, ident, insert(MapAt(@, ident), {s}))]

\* A faulty get_active_count: the counter is read and left as it is.
get_active_count_without_increment(T) ==
    TOk(T, T.nodes[T.active].counter)

\* Table::get_active_count: active->counter++
get_active_count(T) ==
    TOk([T EXCEPT !.nodes[T.active].counter = @ + 1],
        T.nodes[T.active].counter)

\* the loop of the empty-path lookup: every exception of the node lookup
\* is caught and the search goes on in the parent
RECURSIVE find_upwards(_, _, _, _)
find_upwards(T, current, field, ident) ==
    IF current = 0 THEN TThrow(T)
    ELSE LET r == TableNode_find_symbol(T, current, field, ident) IN
         IF r.ok THEN r
         ELSE find_upwards(T, T.nodes[current].parent, field, ident)

\* A faulty search for the base node: the active node only, no climbing.
find_base_without_climbing(T, current, ident) ==
    IF current = 0 THEN 0
    ELSE IF ident \in DOMAIN T.nodes[current].nested THEN current
    ELSE 0

\* the nearest of current and its ancestors whose nested has the key ident
RECURSIVE find_base(_, _, _)
find_base(T, current, ident) ==
    IF current = 0 THEN 0
    ELSE IF ident \in DOMAIN T.nodes[current].nested THEN current
    ELSE find_base(T, T.nodes[current].parent, ident)

\* find_node along path[i .. Len(path) - 1], starting in current
RECURSIVE find_along(_, _, _, _)
find_along(T, current, path, i) ==
    IF i >= Len(path) THEN TOk(T, current)
    ELSE LET r == find_node(T, current, path[i]) IN
         IF ~r.ok THEN r ELSE find_along(T, r.v, path, i + 1)

\* A faulty lookup: a lookup by path leaves the cursor in the node it
\* reached.
find_symbol_moving_the_cursor(T, field, ident, path) ==
    IF path = <<>> THEN find_upwards(T, T.active, field, ident)
    ELSE LET base == find_base(T, T.active, ident) IN
         IF base = 0 THEN TThrow(T)
         ELSE LET first == find_node(T, base, ident) IN
              IF ~first.ok THEN first
              ELSE LET last == find_along(T, first.v, path, 1) IN
                   IF ~last.ok THEN last
                   ELSE TableNode_find_symbol([T EXCEPT !.active = last.v],
                                              last.v, field, path[Len(path)])

find_symbol(T, field, ident, path) ==
    IF path = <<>> THEN find_upwards(T, T.active, field, ident)
    ELSE LET base == find_base(T, T.active, ident) IN
         IF base = 0 THEN TThrow(T)
         ELSE LET first == find_node(T, base, ident) IN
              IF ~first.ok THEN first
              ELSE LET last == find_along(T, first.v, path, 1) IN
                   IF ~last.ok THEN last
                   ELSE TableNode_find_symbol(T, last.v, field,
                                              path[Len(path)])

find_type_symbol(T, ident, path) == find_symbol(T, "types", ident, path)

find_expr_symbol(T, ident, path) == find_symbol(T, "exprs", ident, path)

\* the three local maps of Table::import, keyed by the path of the import
NoImports == [types |-> EmptyMap, exprs |-> EmptyMap, nested |-> EmptyMap]

Fields == {"types", "exprs", "nested"}

\* x[key].insert(src.begin(), src.end()) on the map x of the given field:
\* a set of symbols for types and exprs, a set of node pointers for nested
insert_at(m, field, key, src) ==
    MapPut(m, key, IF field = "nested" THEN MapAt(m, key) \cup src
                   ELSE insert(MapAt(m, key), src))

\* types[path].insert(current.types[name]...) and the same for exprs and
\* nested; current.types[name] is operator[], which gives the node the
\* entry name if it had none
copy_entry(T, current, name, path, maps) ==
    [ok |-> TRUE,
     T |-> [T EXCEPT ![ "nodes" ][current] =
              [f \in DOMAIN @ |->
                 IF f \in Fields THEN MapPut(@[f], name, MapAt(@[f], name))
                 ELSE @[f]]],
     v |-> [f \in Fields |->
              insert_at(maps[f], f, path, MapAt(T.nodes[current][f], name))]]

RECURSIVE import_helper(_, _, _, _, _)
RECURSIVE import_nested(_, _, _, _, _, _)

\* the loop over node_import.nested, from its i-th element on
import_nested(T, current, imports, i, path, maps) ==
    LET then(r) ==
            IF ~r.ok THEN r
            ELSE import_nested(r.T, current, imports, i + 1, path, r.v)
    IN  IF i > Len(imports) THEN TOk(T, maps)
        ELSE then(import_helper(T, current, imports[i], path, maps))

import_helper(T, current, imp, path, maps) ==
    LET into(next_node) ==
            IF ~next_node.ok THEN TThrow(T)
            ELSE import_nested(T, next_node.v, imp.nested, 1,
                               Append(path, imp.name), maps)
        erase(c, erased) ==
            TOk(c.T, [f \in Fields |->
                        [p \in DOMAIN c.v[f] \ {erased} |-> c.v[f][p]]])
    IN  CASE imp.k = "Node" ->
               IF imp.nested = <<>>
               THEN copy_entry(T, current, imp.name, Append(path, imp.name),
                               maps)
               ELSE into(find_node(T, current, imp.name))
          [] imp.k = "Alias" ->
               erase(IF imp.alias # None
                     THEN copy_entry(T, current, imp.name,
                                     Append(path, imp.alias[1]), maps)
                     ELSE TOk(T, maps),
                     Append(path, imp.name))
          [] imp.k = "Wild" ->
               TOk(T, [f \in Fields |->
                         LET names == DOMAIN T.nodes[current][f]
                             added == { Append(path, n) : n \in names }
                         IN  [p \in DOMAIN maps[f] \cup added |->
                                IF p \in added
                                THEN insert_at(maps[f], f, p,
                                       T.nodes[current][f][p[Len(p)]])[p]
                                ELSE maps[f][p]]])

\* A faulty merge: an imported entry replaces the entry of the active
\* node instead of being inserted into it.
merge_imports_overwriting(T, maps) ==
    [T EXCEPT ![ "nodes" ][T.active] =
       [f \in DOMAIN @ |->
          IF f \notin Fields THEN @[f]
          ELSE LET keys == { p[Len(p)] : p \in DOMAIN maps[f] }
                   m == @[f]
               IN  [k \in DOMAIN m \cup keys |->
                      IF k \notin keys THEN m[k]
                      ELSE UNION { maps[f][p] :
                                     p \in { q \in DOMAIN maps[f] :
                                               q[Len(q)] = k } }]]]

\* the three closing loops of Table::import: every entry of the local maps
\* goes into the active node under the last segment of its path
merge_imports(T, maps) ==
    [T EXCEPT ![ "nodes" ][T.active] =
       [f \in DOMAIN @ |->
          IF f \notin Fields THEN @[f]
          ELSE LET keys == { p[Len(p)] : p \in DOMAIN maps[f] }
                   m == @[f]
               IN  [k \in DOMAIN m \cup keys |->
                      IF k \notin keys THEN m[k]
                      ELSE insert_at(m, f, k,
                             UNION { maps[f][p] :
                                       p \in { q \in DOMAIN maps[f] :
                                                 q[Len(q)] = k } })[k]]]]

import(T, imp) ==
    LET merged(r) ==
            IF ~r.ok THEN TThrow(r.T)
            ELSE TOk(merge_imports(r.T, r.v), <<>>)
        from(current) ==
            IF ~current.ok THEN TThrow(T)
            ELSE merged(import_nested(T, current.v, imp.nested, 1,
                                      <<imp.name>>, NoImports))
        under(base) ==
            IF base = 0 THEN TThrow(T)
            ELSE from(find_node(T, base, imp.name))
    IN  IF imp.k # "Node" THEN TOk(T, <<>>)
        ELSE under(find_base(T, T.active, imp.name))

(***************************************************************************)
(*                THE TABLE UNDER AN ARBITRARY CLIENT                      *)
(* The client calls add_type_symbol, add_expr_symbol, add_node,            *)
(* enter_node, exit_node, import, find_type_symbol and find_expr_symbol in *)
(* any order on a table that starts as Table("root").  tlast records the   *)
(* last call and what it returned; op counts the imports and remembers the *)
(* nodes that were the active node of an import that completed.            *)
(***************************************************************************)

MaxNodes == 2
MaxSyms == 3
MaxImports == 1

TypeSymbols == { Symbol("Class", "Public"), Symbol("Typealias", "Private") }
ExprSymbols == { Symbol("Func", "Public") }
SymbolIdents == { "C", "E" }
NodeIdents == { "M" }

\* open M.{C as D, *}
OpenAliasWild ==
    NodeImport("M", << AliasImport("C", Some("D"), EmptySpan),
                       WildImport(EmptySpan) >>, EmptySpan)

\* open M.{C as D, *}, open M.*, open M.C, open M.{*, C as D}
TableImports ==
    { OpenAliasWild,
      NodeImport("M", << WildImport(EmptySpan) >>, EmptySpan),
      NodeImport("M", << NodeImport("C", <<>>, EmptySpan) >>, EmptySpan),
      NodeImport("M", << WildImport(EmptySpan),
                         AliasImport("C", Some("D"), EmptySpan) >>,
                 EmptySpan) }

\* the lookups the client makes: by bare name, and through the node M
TableLookups ==
    { <<"C", <<>>>>, <<"M", <<"C">>>> }

\* the symbols a node holds under the path it gives them itself
OwnSymbols(T) ==
    { <<n, f, s>> \in (DOMAIN T.nodes) \X {"types", "exprs"}
                      \X (TypeSymbols \cup ExprSymbols
                          \cup { [s EXCEPT !.path = Append(T.nodes[n].path, k)] :
                                 s \in TypeSymbols \cup ExprSymbols,
                                 n \in DOMAIN T.nodes, k \in SymbolIdents }) :
        \E k \in DOMAIN T.nodes[n][f] :
            s \in T.nodes[n][f][k] /\ s.path = Append(T.nodes[n].path, k) }

InitTable ==
    /\ parser = Idle
    /\ pushed = <<>>
    /\ op = [name |-> "init", ok |-> TRUE, imports |-> 0, importers |-> {}]
    /\ table = Table("root")
    /\ tlast = Idle
    /\ builder = Idle

AddTypeSymbol ==
    \E ident \in SymbolIdents, symbol \in TypeSymbols :
        /\ Cardinality(OwnSymbols(table)) < MaxSyms
        /\ table' = add_type_symbol(table, ident, symbol)
        /\ tlast' = [name |-> "add_type_symbol", ok |-> TRUE,
                     ident |-> ident, symbol |-> symbol]
        /\ UNCHANGED <<parser, pushed, op, builder>>

AddExprSymbol ==
    \E ident \in SymbolIdents, symbol \in ExprSymbols :
        /\ Cardinality(OwnSymbols(table)) < MaxSyms
        /\ table' = add_expr_symbol(table, ident, symbol)
        /\ tlast' = [name |-> "add_expr_symbol", ok |-> TRUE,
                     ident |-> ident, symbol |-> symbol]
        /\ UNCHANGED <<parser, pushed, op, builder>>

AddNode ==
    \E ident \in NodeIdents, kind \in {"Module"} :
        /\ Len(table.nodes) < MaxNodes
        /\ table' = add_node(table, ident, kind)
        /\ tlast' = [name |-> "add_node", ok |-> TRUE, ident |-> ident]
        /\ UNCHANGED <<parser, pushed, op, builder>>

EnterNode ==
    \E ident \in NodeIdents :
        LET r == enter_node(table, ident) IN
        /\ table' = r.T
        /\ tlast' = [name |-> "enter_node", ok |-> r.ok, ident |-> ident]
        /\ UNCHANGED <<parser, pushed, op, builder>>

ExitNode ==
    LET r == exit_node(table) IN
    /\ table' = r.T
    /\ tlast' = [name |-> "exit_node", ok |-> r.ok]
    /\ UNCHANGED <<parser, pushed, op, builder>>

TableImport ==
    \E imp \in TableImports :
        LET r == import(table, imp) IN
        /\ op.imports < MaxImports
        /\ table' = r.T
        /\ tlast' = [name |-> "import", ok |-> r.ok, imp |-> imp,
                     pre |-> table]
        /\ op' = [op EXCEPT !.imports = @ + 1,
                            !.importers = IF r.ok THEN @ \cup {table.active}
                                          ELSE @]
        /\ UNCHANGED <<parser, pushed, builder>>

FindSymbol ==
    \E field \in {"types", "exprs"}, q \in TableLookups :
        LET r == IF field = "types"
                 THEN find_type_symbol(table, q[1], q[2])
                 ELSE find_expr_symbol(table, q[1], q[2])
        IN  /\ tlast' = [name |-> "find_symbol", ok |-> r.ok,
                         field |-> field, ident |-> q[1], path |-> q[2],
                         v |-> r.v]
            /\ UNCHANGED <<parser, pushed, op, table, builder>>

NextTable ==
    \/ AddTypeSymbol
    \/ AddExprSymbol
    \/ AddNode
    \/ EnterNode
    \/ ExitNode
    \/ TableImport
    \/ FindSymbol

SpecTable == InitTable /\ [][NextTable]_vars

\* the symbols stored in node n of T under the name k, as [f, k, s]
Stored(T, n) ==
    { [f |-> f, k |-> k, s |-> s] :
        <<f, k, s>> \in UNION { UNION { { <<f, k, s>> : s \in T.nodes[n][f][k] } :
                                         k \in DOMAIN T.nodes[n][f] } :
                                f \in {"types", "exprs"} } }

\* C6 as stated: in every reachable table state, import included, every
\* Symbol s stored in a node n under the local name k, in n.types or in
\* n.exprs, has s.path = n.path + "." + k.
C6_SymbolPathInvariant ==
    \A n \in DOMAIN table.nodes : \A e \in Stored(table, n) :
        e.s.path = Append(table.nodes[n].path, e.k)

\* C6 amended: the path of a Symbol names the node and the identifier it
\* was registered under.  Every Symbol stored anywhere is held by some node
\* d under a name k0 with s.path = d.path + "." + k0; in a node that was
\* never the active node of an import, d is the node itself and k0 the name
\* the symbol is stored under; and add_type_symbol and add_expr_symbol
\* leave in the active node, under ident, a symbol of the given kind with
\* the path active.path + "." + ident.
C6_PathAtRegistration ==
    /\ \A n \in DOMAIN table.nodes : \A e \in Stored(table, n) :
          /\ \E d \in DOMAIN table.nodes : \E o \in Stored(table, d) :
                /\ o.f = e.f
                /\ o.s = e.s
                /\ e.s.path = Append(table.nodes[d].path, o.k)
          /\ n \notin op.importers
                => e.s.path = Append(table.nodes[n].path, e.k)
    /\ tlast.name \in {"add_type_symbol", "add_expr_symbol"}
          => \E e \in Stored(table, table.active) :
                /\ e.f = (IF tlast.name = "add_type_symbol" THEN "types"
                          ELSE "exprs")
                /\ e.k = tlast.ident
                /\ e.s.kind = tlast.symbol.kind
                /\ e.s.path = Append(table.nodes[table.active].path,
                                     tlast.ident)

\* an import has put into the root, under the alias D, a symbol that M
\* registered as C, next to a symbol the root registered itself
C6_Witness ==
    /\ tlast.name = "import" /\ tlast.ok
    /\ table.active = 1
    /\ \E e \in Stored(table, 1) :
          e.k = "D" /\ e.s.path = <<"root", "M", "C">>
    /\ \E e \in Stored(table, 1) :
          e.s.path = Append(<<"root">>, e.k)

\* the nearest of node current and its ancestors whose map `field` has an
\* entry for ident, 0 if none has
RECURSIVE Nearest(_, _, _, _)
Nearest(T, current, field, ident) ==
    IF current = 0 THEN 0
    ELSE IF ident \in DOMAIN T.nodes[current][field] THEN current
    ELSE Nearest(T, T.nodes[current].parent, field, ident)

\* C7: a lookup with an empty path is decided by the nearest node, from
\* the active node upwards, whose map contains ident.  If that node holds
\* exactly one Symbol for ident the lookup returns it; if it holds more
\* than one the lookup fails (ambiguity) and does not fall through to an
\* outer scope; if no node up to the root contains ident the lookup fails.
C7_NearestDecides ==
    (tlast.name = "find_symbol" /\ tlast.path = <<>>) =>
        LET n == Nearest(table, table.active, tlast.field, tlast.ident)
            held == table.nodes[n][tlast.field][tlast.ident]
        IN  /\ n = 0 => ~tlast.ok
            /\ (n # 0 /\ Cardinality(held) = 1)
                  => tlast.ok /\ tlast.v \in held
            /\ (n # 0 /\ Cardinality(held) > 1) => ~tlast.ok

\* C8: open M.{C as D, *} into the active node N.  Afterwards N.types[D]
\* contains the type symbols of M.C, N.types has every other type name of
\* M under its own identifier, and the import has contributed no entry C:
\* N.types[C] is what it was before the import, absent if it was absent.
C8_AliasHides ==
    LET pre == tlast.pre
        M == find_node(pre, find_base(pre, pre.active, "M"), "M").v
        before == pre.nodes[pre.active].types
        after == table.nodes[table.active].types
    IN  (/\ tlast.name = "import" /\ tlast.ok
         /\ tlast.imp = OpenAliasWild
         /\ MapAt(pre.nodes[M].types, "C") # {})
        => /\ "D" \in DOMAIN after
           /\ pre.nodes[M].types["C"] \subseteq after["D"]
           /\ \A k \in DOMAIN pre.nodes[M].types \ {"C"} :
                 k \in DOMAIN after /\ pre.nodes[M].types[k] \subseteq after[k]
           /\ "C" \in DOMAIN after
                 => "C" \in DOMAIN before /\ after["C"] = before["C"]

(***************************************************************************)
(*                  TABLE BUILDER AND PATTERN ELABORATION                  *)
(* Identifiers are TLA+ strings here: the table only compares them and     *)
(* joins them into paths.  A pass is an operator from the table and the    *)
(* declarations `decls` points to, to the table and the declarations as    *)
(* the pass leaves them; when a pass throws, the build is over and the     *)
(* declarations are not looked at again.                                   *)
(***************************************************************************)

\* a parsing::Decl of kind k: x is the body of a Module, Class, Enum,
\* Interface or Extension, the pattern of a Let, the import of an Open
Decl(k, ident, access, x) ==
    [k |-> k, ident |-> ident, access |-> access, attrs |-> <<>>,
     body |-> IF k \in {"Module", "Class", "Enum", "Interface", "Extension"}
              THEN x ELSE <<>>,
     pat |-> IF k = "Let" THEN x ELSE <<>>,
     import |-> IF k = "Open" THEN x ELSE <<>>,
     span |-> EmptySpan]

\* Name::slice on a name whose path holds identifiers only: the path as
\* the module path, nothing left over
slice(name) == <<name.path, <<>>>>

RECURSIVE pat_rewrite(_, _)
pat_rewrite(T, pat) ==
    LET all(pats) ==
            LET rs == [j \in DOMAIN pats |-> pat_rewrite(T, pats[j])] IN
            IF \E j \in DOMAIN pats : ~rs[j].ok THEN TThrow(T)
            ELSE TOk(T, [j \in DOMAIN pats |-> rs[j].v])
        with(field, r) ==
            IF ~r.ok THEN r ELSE TOk(T, [pat EXCEPT ![field] = r.v])
    IN  CASE pat.k = "Tuple" -> with("elems", all(pat.elems))
          [] pat.k = "Ctor" ->
               IF pat.args = None THEN TOk(T, pat)
               ELSE LET r == all(pat.args[1]) IN
                    IF ~r.ok THEN r
                    ELSE TOk(T, [pat EXCEPT !.args = Some(r.v)])
          [] pat.k = "Name" ->
               LET path == slice(pat.name)[1]
                   rest == slice(pat.name)[2]
                   symbol == find_expr_symbol(T, pat.name.ident, path)
               IN  IF rest # <<>> THEN TThrow(T)
                   ELSE IF symbol.ok /\ symbol.v.kind = "Ctor"
                   THEN IF pat.is_mut THEN TThrow(T)
                        ELSE IF pat.hint.k # "Meta" THEN TThrow(T)
                        ELSE TOk(T, CtorPat(pat.name, pat.type_args, None,
                                            pat.span))
                   ELSE IF path = <<>> /\ pat.type_args = None
                   THEN TOk(T, pat)
                   ELSE TThrow(T)
          [] pat.k = "Or" -> with("options", all(pat.options))
          [] pat.k = "At" ->
               LET r == pat_rewrite(T, pat.pat) IN
               IF ~r.ok THEN r ELSE TOk(T, [pat EXCEPT !.pat = r.v])
          [] OTHER -> TOk(T, pat)

RECURSIVE pat_add_vars(_, _, _)
RECURSIVE pat_add_vars_each(_, _, _, _)

\* the loops of pat_add_vars over a list of patterns, from the i-th on
pat_add_vars_each(T, pats, i, access) ==
    IF i > Len(pats) THEN TOk(T, <<>>)
    ELSE LET r == pat_add_vars(T, pats[i], access) IN
         IF ~r.ok THEN r ELSE pat_add_vars_each(r.T, pats, i + 1, access)

pat_add_vars(T, pat, access) ==
    CASE pat.k = "Tuple" -> pat_add_vars_each(T, pat.elems, 1, access)
      [] pat.k = "Ctor" ->
           IF pat.args = None THEN TOk(T, <<>>)
           ELSE pat_add_vars_each(T, pat.args[1], 1, access)
      [] pat.k = "Name" ->
           TOk(add_expr_symbol(T, pat.name.ident, Symbol("Var", access)),
               <<>>)
      [] pat.k = "Or" -> pat_add_vars_each(T, pat.options, 1, access)
      [] pat.k = "At" ->
           IF pat.name.path # <<>> THEN TThrow(T)
           ELSE pat_add_vars(
                    add_expr_symbol(T, pat.name.ident, Symbol("Var", access)),
                    pat.pat, access)
      [] OTHER -> TOk(T, <<>>)

RECURSIVE pass(_, _, _, _)

\* visit_module, visit_class, visit_enum, visit_interface and
\* visit_extension: enter the node of decl, run the pass fn on its body
\* (fn stands for the std::function the pass hands over), exit
visit(T, decl, fn) ==
    LET exited(x, body) ==
            IF ~x.ok THEN TThrow(x.T)
            ELSE TOk(x.T, [decl EXCEPT !.body = body])
        passed(r) ==
            IF ~r.ok THEN TThrow(r.T) ELSE exited(exit_node(r.T), r.v)
        entered(e) ==
            IF ~e.ok THEN TThrow(T) ELSE passed(pass(fn, e.T, decl.body, 1))
    IN  entered(enter_node(T, decl.ident))

\* the body of the loop of build_constants, for the declaration decl; the
\* value is the declaration as the pass leaves it
build_constants(T, decl) ==
    LET k == decl.k
        typed == add_type_symbol(T, decl.ident, Symbol(k, decl.access))
        count == get_active_count(T)
        named(prefix) == [decl EXCEPT !.ident = prefix \o ToString(count.v)]
    IN  IF k \in {"Module", "Class", "Enum", "Interface", "Extension"}
        THEN visit(CASE k = "Module" -> add_node(T, decl.ident, k)
                     [] k = "Extension" ->
                          add_node(add_expr_symbol(count.T,
                                                   named("ext%").ident,
                                                   Symbol(k, decl.access)),
                                   named("ext%").ident, k)
                     [] OTHER -> add_node(typed, decl.ident, k),
                   IF k = "Extension" THEN named("ext%") ELSE decl,
                   "build_constants")
        ELSE CASE k = "Typealias" -> TOk(typed, decl)
               [] k \in {"Func", "Ctor"} ->
                    TOk(add_expr_symbol(T, decl.ident,
                                        Symbol(k, decl.access)), decl)
               [] k = "Init" ->
                    IF decl.ident = ""
                    THEN TOk(add_expr_symbol(count.T, named("init%").ident,
                                             Symbol(k, decl.access)),
                             named("init%"))
                    ELSE TOk(add_expr_symbol(T, decl.ident,
                                             Symbol(k, decl.access)), decl)
               [] OTHER -> TOk(T, decl)

\* the body of the loop of merge_symbols
merge_symbols(T, decl) ==
    LET imported(r) == IF ~r.ok THEN TThrow(r.T) ELSE TOk(r.T, decl) IN
    CASE decl.k \in {"Module", "Class", "Enum", "Interface", "Extension"} ->
           visit(T, decl, "merge_symbols")
      [] decl.k = "Open" -> imported(import(T, decl.import))
      [] OTHER -> TOk(T, decl)

\* pat_add_vars on the pattern pat_rewrite left in the declaration
add_rewritten(decl, rewritten) ==
    IF ~rewritten.ok THEN rewritten
    ELSE LET added == pat_add_vars(rewritten.T, rewritten.v, decl.access) IN
         IF ~added.ok THEN added
         ELSE TOk(added.T, [decl EXCEPT !.pat = rewritten.v])

\* the body of the loop of build_variables
build_variables(T, decl) ==
    CASE decl.k \in {"Module", "Class", "Enum", "Interface", "Extension"} ->
           visit(T, decl, "build_variables")
      [] decl.k = "Let" -> add_rewritten(decl, pat_rewrite(T, decl.pat))
      [] OTHER -> TOk(T, decl)

\* the loop goes on after the i-th declaration, which the pass left as r.v
pass_on(fn, r, decls, i) ==
    IF ~r.ok THEN r
    ELSE LET rest == pass(fn, r.T, decls, i + 1) IN
         IF ~rest.ok THEN rest
         ELSE TOk(rest.T, [rest.v EXCEPT ![i] = r.v])

\* for (const auto& decl: *decls) of the pass fn, from the i-th declaration
pass(fn, T, decls, i) ==
    IF i > Len(decls) THEN TOk(T, decls)
    ELSE pass_on(fn,
                 CASE fn = "build_constants" -> build_constants(T, decls[i])
                   [] fn = "merge_symbols" -> merge_symbols(T, decls[i])
                   [] fn = "build_variables" -> build_variables(T, decls[i]),
                 decls, i)

\* the rest of build() after a pass returned or threw r
then_pass(r, fn) == IF ~r.ok THEN r ELSE pass(fn, r.T, r.v, 1)

\* TableBuilder::build on the builder [table, decls]: the four passes
build(T, decls) ==
    then_pass(then_pass(then_pass(pass("build_constants", T, decls, 1),
                                  "merge_symbols"),
                        "build_variables"),
              "merge_symbols")

\* Context::has_type_var: ctx is the vector of scopes
has_type_var(ctx, ident) ==
    \E j \in DOMAIN ctx : ident \in ctx[j].type_vars

\* the elaborator is its table and its context: E = [table, ctx]
RECURSIVE elab_type(_, _)
elab_type(E, type) ==
    LET all(types) ==
            LET rs == [j \in DOMAIN types |-> elab_type(E, types[j])] IN
            IF \E j \in DOMAIN types : ~rs[j].ok THEN TThrow(E.table)
            ELSE TOk(E.table, [j \in DOMAIN types |-> rs[j].v])
        some(r) == IF ~r.ok THEN r ELSE TOk(E.table, Some(r.v))
        constant(symbol, args) ==
            IF ~symbol.ok THEN TThrow(E.table)
            ELSE IF ~args.ok THEN args
            ELSE IF symbol.v.kind \in {"Enum", "Class", "Typealias",
                                       "Interface"}
            THEN TOk(E.table, [k |-> symbol.v.kind,
                               ident |-> type.name.ident,
                               type_args |-> args.v, span |-> type.span])
            ELSE TThrow(E.table)
        tuple(r) ==
            IF ~r.ok THEN r
            ELSE TOk(E.table, [k |-> "Tuple", elems |-> r.v,
                               span |-> type.span])
        arrow(ins, out) ==
            IF ~ins.ok THEN ins
            ELSE IF ~out.ok THEN out
            ELSE TOk(E.table, [k |-> "Arrow", inputs |-> ins.v,
                               output |-> out.v, span |-> type.span])
    IN  CASE type.k \in {"Meta", "Int", "Bool", "Char", "String", "Unit"} ->
               TOk(E.table, [k |-> type.k, span |-> type.span])
          [] type.k = "Name" ->
               IF slice(type.name)[2] # <<>> THEN TThrow(E.table)
               ELSE IF /\ slice(type.name)[1] = <<>>
                       /\ type.type_args = None
                       /\ has_type_var(E.ctx, type.name.ident)
               THEN TOk(E.table, [k |-> "Var", ident |-> type.name.ident,
                                  span |-> type.span])
               ELSE constant(find_type_symbol(E.table, type.name.ident,
                                              slice(type.name)[1]),
                             IF type.type_args = None
                             THEN TOk(E.table, None)
                             ELSE some(all(type.type_args[1])))
          [] type.k = "Tuple" -> tuple(all(type.elems))
          [] type.k = "Arrow" ->
               arrow(all(type.inputs), elab_type(E, type.output))

elab_lit(lit) == lit

RECURSIVE elab_pat(_, _)
elab_pat(E, pat) ==
    LET all(pats) ==
            LET rs == [j \in DOMAIN pats |-> elab_pat(E, pats[j])] IN
            IF \E j \in DOMAIN pats : ~rs[j].ok THEN TThrow(E.table)
            ELSE TOk(E.table, [j \in DOMAIN pats |-> rs[j].v])
        types(ts) ==
            LET rs == [j \in DOMAIN ts |-> elab_type(E, ts[j])] IN
            IF \E j \in DOMAIN ts : ~rs[j].ok THEN TThrow(E.table)
            ELSE TOk(E.table, [j \in DOMAIN ts |-> rs[j].v])
        some(r) == IF ~r.ok THEN r ELSE TOk(E.table, Some(r.v))
        list(field, r) ==
            IF ~r.ok THEN r
            ELSE TOk(E.table, [k |-> pat.k, span |-> pat.span]
                              @@ (field :> r.v))
        ctor(symbol, type_args, args) ==
            IF slice(pat.name)[2] # <<>> THEN TThrow(E.table)
            ELSE IF ~symbol.ok THEN TThrow(E.table)
            ELSE IF symbol.v.kind # "Ctor" THEN TThrow(E.table)
            ELSE IF ~type_args.ok THEN type_args
            ELSE IF ~args.ok THEN args
            ELSE TOk(E.table, [k |-> "Ctor", ident |-> symbol.v.path,
                               type_args |-> type_args.v, args |-> args.v,
                               span |-> pat.span])
        var(hint) ==
            IF ~hint.ok THEN hint
            ELSE TOk(E.table, [k |-> "Var", ident |-> pat.name.ident,
                               hint |-> hint.v, is_mut |-> pat.is_mut,
                               span |-> pat.span])
        at(hint, sub_pat) ==
            IF ~hint.ok THEN hint
            ELSE IF ~sub_pat.ok THEN sub_pat
            ELSE IF pat.name.path # <<>> THEN TThrow(E.table)
            ELSE TOk(E.table, [k |-> "At", ident |-> pat.name.ident,
                               hint |-> hint.v, is_mut |-> pat.is_mut,
                               pat |-> sub_pat.v, span |-> pat.span])
    IN  CASE pat.k = "Lit" ->
               TOk(E.table, [k |-> "Lit", literal |-> elab_lit(pat.literal),
                             span |-> pat.span])
          [] pat.k = "Tuple" -> list("elems", all(pat.elems))
          [] pat.k = "Ctor" ->
               ctor(find_expr_symbol(E.table, pat.name.ident,
                                     slice(pat.name)[1]),
                    IF pat.type_args = None THEN TOk(E.table, None)
                    ELSE some(types(pat.type_args[1])),
                    IF pat.args = None THEN TOk(E.table, None)
                    ELSE some(all(pat.args[1])))
          [] pat.k = "Name" -> var(elab_type(E, pat.hint))
          [] pat.k = "Wild" -> TOk(E.table, [k |-> "Wild", span |-> pat.span])
          [] pat.k = "Or" -> list("options", all(pat.options))
          [] pat.k = "At" ->
               at(elab_type(E, pat.hint), elab_pat(E, pat.pat))

\* Elaborator::elab_expr on a literal and on a name: a name resolves to
\* Var for a Var symbol and to Const for a symbol of any other kind
elab_expr(E, expr) ==
    LET named(symbol) ==
            IF ~symbol.ok THEN TThrow(E.table)
            ELSE IF symbol.v.kind = "Var"
            THEN TOk(E.table, [k |-> "Var", ident |-> expr.name.ident,
                               span |-> expr.span])
            ELSE TOk(E.table, [k |-> "Const", ident |-> symbol.v.path,
                               type_args |-> None, span |-> expr.span])
    IN  CASE expr.k = "Lit" ->
               TOk(E.table, [k |-> "Lit", literal |-> elab_lit(expr.literal),
                             span |-> expr.span])
          [] expr.k = "Name" ->
               named(find_expr_symbol(E.table, expr.name.ident,
                                      slice(expr.name)[1]))

ExprCond(expr, span) == [k |-> "Expr", expr |-> expr, span |-> span]
PatCond(pat, expr, span) ==
    [k |-> "Case", pat |-> pat, expr |-> expr, span |-> span]

elab_cond(E, cond) ==
    LET test(e) ==
            IF ~e.ok THEN e ELSE TOk(E.table, ExprCond(e.v, cond.span))
        case(p, e) ==
            IF ~p.ok THEN p
            ELSE IF ~e.ok THEN e
            ELSE TOk(E.table, PatCond(p.v, e.v, cond.span))
    IN  CASE cond.k = "Expr" -> test(elab_expr(E, cond.expr))
          [] cond.k = "Case" ->
               case(elab_pat(E, cond.pat), elab_expr(E, cond.expr))

(***************************************************************************)
(*                 BUILDING AND ELABORATING A PACKAGE                      *)
(* A package of at most MaxDecls top-level declarations goes through       *)
(* TableBuilder::build(); on the table it returns, whose active node is    *)
(* the root, the elaborator elaborates conditions and names are looked up. *)
(* builder holds the package as parsed (src), the package as the passes    *)
(* left it (pkg) and whether build() returned.                             *)
(***************************************************************************)

MaxDecls == 2

\* the pattern that is the bare name ident, as the parser builds it
NameOnly(ident) ==
    NamePat(Name(ident, <<>>), None, MetaType(EmptySpan), FALSE, EmptySpan)

\* enum Option { case None  case Some(T) }
EnumOption ==
    Decl("Enum", "Option", "Public",
         << Decl("Ctor", "None", "Public", <<>>),
            Decl("Ctor", "Some", "Public", <<>>) >>)

\* open Option.*
OpenOption ==
    Decl("Open", "", "Public",
         NodeImport("Option", << WildImport(EmptySpan) >>, EmptySpan))

\* the declarations the packages are made of:
\*   enum Option { case None case Some(T) }     open Option.*
\*   enum E { case A case A }                   class C {}
\*   func f()      private func f()             type T = Int
\*   let x = 1     let (Some, x) = 1
\*   module M { open Option.*  let None = 1 }
\*   module N { enum E {}  enum F {} }
TopDecls ==
    { EnumOption,
      OpenOption,
      Decl("Enum", "E", "Public", << Decl("Ctor", "A", "Public", <<>>),
                                     Decl("Ctor", "A", "Public", <<>>) >>),
      Decl("Class", "C", "Public", <<>>),
      Decl("Func", "f", "Public", <<>>),
      Decl("Func", "f", "Private", <<>>),
      Decl("Typealias", "T", "Public", <<>>),
      Decl("Let", "", "Public", NameOnly("x")),
      Decl("Let", "", "Public",
           TuplePat(<< NameOnly("Some"), NameOnly("x") >>, EmptySpan)),
      Decl("Module", "M", "Public",
           << OpenOption, Decl("Let", "", "Public", NameOnly("None")) >>),
      Decl("Module", "N", "Public",
           << Decl("Enum", "E", "Public", <<>>),
              Decl("Enum", "F", "Public", <<>>) >>) }

RECURSIVE Packages(_)
Packages(n) ==
    IF n = 0 THEN { <<>> }
    ELSE LET shorter == Packages(n - 1) IN
         shorter \cup { Append(p, d) : p \in shorter, d \in TopDecls }

One == LitExpr(Lit("Int", 1, EmptySpan), EmptySpan)

\* if let Some = 1, if let x = 1, if let (None, x) = 1, if let Some(x) = 1,
\* if let Option.Some(x) = 1, if 1
Conds ==
    { PatCond(NameOnly("Some"), One, EmptySpan),
      PatCond(NameOnly("x"), One, EmptySpan),
      PatCond(TuplePat(<< NameOnly("None"), NameOnly("x") >>, EmptySpan),
              One, EmptySpan),
      PatCond(CtorPat(Name("Some", <<>>), None, Some(<< NameOnly("x") >>),
                      EmptySpan), One, EmptySpan),
      PatCond(CtorPat(Name("Option", <<"Some">>), None,
                      Some(<< NameOnly("x") >>), EmptySpan), One, EmptySpan),
      ExprCond(One, EmptySpan) }

InitBuild ==
    /\ parser = Idle
    /\ pushed = <<>>
    /\ op = Idle
    /\ table = Table("root")
    /\ tlast = Idle
    /\ builder \in { [stage |-> "parsed", ok |-> TRUE, src |-> p, pkg |-> p] :
                       p \in Packages(MaxDecls) }

Build ==
    LET r == build(table, builder.pkg) IN
    /\ builder.stage = "parsed"
    /\ table' = r.T
    /\ builder' = [builder EXCEPT !.stage = "built", !.ok = r.ok,
                                  !.pkg = IF r.ok THEN r.v ELSE @]
    /\ tlast' = [name |-> "build", ok |-> r.ok]
    /\ UNCHANGED <<parser, pushed, op>>

\* the elaborator works on the table build() returned, in a function body:
\* one scope, no type variable
ElabCond ==
    \E cond \in Conds :
        LET r == elab_cond([table |-> table,
                            ctx |-> << [type_vars |-> {},
                                        expr_vars |-> EmptyMap] >>], cond)
        IN  /\ builder.stage = "built" /\ builder.ok
            /\ tlast' = [name |-> "elab_cond", ok |-> r.ok, v |-> r.v]
            /\ UNCHANGED <<parser, pushed, op, table, builder>>

FindExprSymbol ==
    \E ident \in {"Some", "x", "f"} :
        LET r == find_expr_symbol(table, ident, <<>>) IN
        /\ builder.stage = "built" /\ builder.ok
        /\ tlast' = [name |-> "find_expr_symbol", ok |-> r.ok,
                     ident |-> ident, v |-> r.v]
        /\ UNCHANGED <<parser, pushed, op, table, builder>>

\* the patterns of the conditions above
Pats == { cond.pat : cond \in { c \in Conds : c.k = "Case" } }

\* a pattern of a function body goes through elab_pat alone
ElabPat ==
    \E pat \in Pats :
        LET r == elab_pat([table |-> table,
                           ctx |-> << [type_vars |-> {},
                                       expr_vars |-> EmptyMap] >>], pat)
        IN  /\ builder.stage = "built" /\ builder.ok
            /\ tlast' = [name |-> "elab_pat", ok |-> r.ok, pat |-> pat,
                         v |-> r.v]
            /\ UNCHANGED <<parser, pushed, op, table, builder>>

\* the type names N.E, N.F, T and Option, as the parser builds them
Types ==
    { NameType(Name("N", <<"E">>), None, EmptySpan),
      NameType(Name("N", <<"F">>), None, EmptySpan),
      NameType(Name("T", <<>>), None, EmptySpan),
      NameType(Name("Option", <<>>), None, EmptySpan) }

\* the elaborator of a function body: one scope, no type variable
BodyElaborator ==
    [table |-> table,
     ctx |-> << [type_vars |-> {}, expr_vars |-> EmptyMap] >>]

\* a type of a function body goes through elab_type
ElabType ==
    \E type \in Types :
        LET r == elab_type(BodyElaborator, type)
        IN  /\ builder.stage = "built" /\ builder.ok
            /\ tlast' = [name |-> "elab_type", ok |-> r.ok, type |-> type,
                         v |-> r.v]
            /\ UNCHANGED <<parser, pushed, op, table, builder>>

NextBuild ==
    \/ Build
    \/ ElabCond
    \/ ElabPat
    \/ ElabType
    \/ FindExprSymbol

SpecBuild == InitBuild /\ [][NextBuild]_vars

(***************************************************************************)
(*                        CLAIMS ON A BUILT PACKAGE                        *)
(***************************************************************************)

\* the identifiers of the VarPats of the elaborated pattern pat
RECURSIVE VarPats(_)
VarPats(pat) ==
    LET each(pats) == UNION { VarPats(pats[j]) : j \in DOMAIN pats } IN
    CASE pat.k = "Var" -> { pat.ident }
      [] pat.k = "Tuple" -> each(pat.elems)
      [] pat.k = "Ctor" -> IF pat.args = None THEN {} ELSE each(pat.args[1])
      [] pat.k = "Or" -> each(pat.options)
      [] pat.k = "At" -> VarPats(pat.pat)
      [] OTHER -> {}

\* ident resolves, from the active node of the final table, to a Ctor
ResolvesToCtor(ident) ==
    LET r == find_expr_symbol(table, ident, <<>>) IN
    r.ok /\ r.v.kind = "Ctor"

\* C5: constructor rewrite soundness.  After build() and the elaboration
\* of a pattern, in whatever position the pattern stands, no VarPat of the
\* elaborated pattern has an identifier that find_expr_symbol resolves to a
\* Ctor symbol visible from the enclosing scope in the final table.
C5_CtorRewriteSound ==
    (tlast.name = "elab_pat" /\ tlast.ok)
        => \A ident \in VarPats(tlast.v) : ~ResolvesToCtor(ident)

\* the package declares enum Option { case None case Some(T) } at top level
DeclaresOption(decls) == \E i \in DOMAIN decls : decls[i] = EnumOption

\* no open declaration in decls nor in the bodies below
RECURSIVE NoOpen(_)
NoOpen(decls) ==
    \A i \in DOMAIN decls :
        decls[i].k # "Open" /\ NoOpen(decls[i].body)

\* C9: an enum constructor is resolvable by its bare name from the scope
\* that declares the enum.  After the passes on a package that declares
\* enum Option { case None case Some(T) } at top level and has no open,
\* find_expr_symbol("Some", {}) with the root active succeeds and returns
\* the Ctor symbol of path root.Option.Some.
C9_CtorByBareName ==
    ( /\ tlast.name = "find_expr_symbol" /\ tlast.ident = "Some"
      /\ DeclaresOption(builder.src) /\ NoOpen(builder.src) )
        => /\ tlast.ok
           /\ tlast.v.kind = "Ctor"
           /\ tlast.v.path = <<"root", "Option", "Some">>

\* the names the pattern pat binds once pat_rewrite has run on it, as
\* pat_add_vars walks it
RECURSIVE PatVars(_)
PatVars(pat) ==
    LET each(pats) == UNION { PatVars(pats[j]) : j \in DOMAIN pats } IN
    CASE pat.k = "Name" -> { pat.name.ident }
      [] pat.k = "Tuple" -> each(pat.elems)
      [] pat.k = "Ctor" -> IF pat.args = None THEN {} ELSE each(pat.args[1])
      [] pat.k = "Or" -> each(pat.options)
      [] pat.k = "At" -> { pat.name.ident } \cup PatVars(pat.pat)
      [] OTHER -> {}

\* the entries <<map, identifier>> the declaration decl introduces into the
\* node it stands in
Introduces(decl) ==
    CASE decl.k \in {"Class", "Enum", "Typealias", "Interface"} ->
           { <<"types", decl.ident>> }
      [] decl.k \in {"Func", "Ctor"} -> { <<"exprs", decl.ident>> }
      [] decl.k = "Let" -> { <<"exprs", v>> : v \in PatVars(decl.pat) }
      [] OTHER -> {}

\* two declarations of the same node introduce the same identifier into the
\* same map, in decls or in a body below
RECURSIVE HasDuplicate(_)
HasDuplicate(decls) ==
    \/ \E i, j \in DOMAIN decls :
           i < j /\ Introduces(decls[i]) \cap Introduces(decls[j]) # {}
    \/ \E i \in DOMAIN decls : HasDuplicate(decls[i].body)

\* C10: duplicate local declarations are a user error.  Whenever two
\* declarations in the same TableNode introduce the same identifier into
\* the same map (two funcs f, two typealiases T, two enum cases A, two
\* classes C, two top-level lets binding x), build() fails instead of
\* completing with the duplicates merged into one Symbol.
C10_DuplicatesFail ==
    (builder.stage = "built" /\ builder.ok) => ~HasDuplicate(builder.pkg)

\* what an elaborated type node says about the type it names: its kind,
\* its identifier and its type arguments, the span left aside
Named(type) == [k |-> type.k, ident |-> type.ident,
                type_args |-> type.type_args]

\* the symbol the raw type name resolves to in the final table
Resolved(type) ==
    find_type_symbol(table, type.name.ident, slice(type.name)[1])

\* C11: every name reference in the elaborated tree is bound to the path of
\* the Symbol it resolved to.  A raw type name that resolves to the symbol
\* s elaborates to a node that identifies s, so two type names that resolve
\* to different symbols elaborate to distinguishable nodes; the identifier
\* of an elaborated CtorPat is the path of the symbol its name resolved to.
C11_NamesBoundToSymbols ==
    /\ (tlast.name = "elab_type" /\ tlast.ok)
           => \A other \in Types :
                  LET r == elab_type(BodyElaborator, other) IN
                  ( /\ r.ok
                    /\ Resolved(other).v.path # Resolved(tlast.type).v.path )
                      => Named(r.v) # Named(tlast.v)
    /\ (tlast.name = "elab_pat" /\ tlast.ok /\ tlast.pat.k = "Ctor")
           => tlast.v.ident
                  = find_expr_symbol(table, tlast.pat.name.ident,
                                     slice(tlast.pat.name)[1]).v.path

(***************************************************************************)
(*                     CLAIMS ON THE TREES OF THE PARSER                   *)
(***************************************************************************)

\* location a is not after location b, in (line, column) order
NotAfter(a, b) == a.line < b.line \/ (a.line = b.line /\ a.column <= b.column)

\* the span starts no later than it ends
Forward(span) == NotAfter(span.start, span.end)

\* the span inner lies within the span outer
Within(inner, outer) ==
    NotAfter(outer.start, inner.start) /\ NotAfter(inner.end, outer.end)

\* the span discipline on the raw type `type` and the types below it
RECURSIVE TypeSpans(_)
TypeSpans(type) ==
    LET each(types) ==
            \A j \in DOMAIN types :
                Within(types[j].span, type.span) /\ TypeSpans(types[j])
    IN  /\ Forward(type.span)
        /\ CASE type.k = "Name" ->
                  type.type_args = None \/ each(type.type_args[1])
             [] type.k = "Tuple" -> each(type.elems)
             [] type.k = "Arrow" -> each(type.inputs \o << type.output >>)
             [] OTHER -> TRUE

\* the span discipline on the raw pattern pat and the nodes below it
RECURSIVE PatSpans(_)
PatSpans(pat) ==
    LET each(pats) ==
            \A j \in DOMAIN pats :
                Within(pats[j].span, pat.span) /\ PatSpans(pats[j])
        hint(type) == Within(type.span, pat.span) /\ TypeSpans(type)
    IN  /\ Forward(pat.span)
        /\ CASE pat.k = "Lit" ->
                  Forward(pat.literal.span)
                  /\ Within(pat.literal.span, pat.span)
             [] pat.k = "Tuple" -> each(pat.elems)
             [] pat.k = "Ctor" ->
                  /\ pat.type_args = None
                        \/ \A j \in DOMAIN pat.type_args[1] :
                               hint(pat.type_args[1][j])
                  /\ pat.args = None \/ each(pat.args[1])
             [] pat.k = "Name" -> hint(pat.hint)
             [] pat.k = "Or" -> each(pat.options)
             [] pat.k = "At" -> hint(pat.hint) /\ each(<< pat.pat >>)
             [] OTHER -> TRUE

\* C12: span discipline.  For every node a successful parse produced, the
\* blocks of switch clauses without statements and the Meta type hints
\* included, span.start <= span.end in (line, column) order and the span
\* of the node is contained in the span of its parent.  Stated on the
\* trees of parse_type and parse_pat and on the clauses of a switch.
C12_SpanDiscipline ==
    /\ (op.name = "parse_type" /\ op.ok) => TypeSpans(op.v)
    /\ (op.name = "parse_pat" /\ op.ok) => PatSpans(op.v)
    /\ (op.name = "parse_expr" /\ op.ok /\ op.v.k = "Switch")
           => /\ Forward(op.v.span)
              /\ \A j \in DOMAIN op.v.clauses :
                     LET clause == op.v.clauses[j] IN
                     /\ Forward(clause.span)
                     /\ Within(clause.span, op.v.span)
                     /\ Forward(clause.expr.span)
                     /\ Within(clause.expr.span, clause.span)

(***************************************************************************)
(*                      THE LADDER OF BINARY OPERATORS                     *)
(* parse_expr9 on operands separated by binary operators, at most MaxOps   *)
(* operators long.  The case the input was written from stays in op.       *)
(***************************************************************************)

MaxOps == 3

\* the operators the inputs are written with: the text, the rung counted
\* from the loosest (1 is assignment), the BinaryExpr::Op and, for an
\* assignment, its mode
LadderOps ==
    { [text |-> <<"=">>, rung |-> 1, op |-> "Assign", mode |-> "Assign"],
      [text |-> <<"+", "=">>, rung |-> 1, op |-> "Assign", mode |-> "Add"],
      [text |-> <<"|", "|">>, rung |-> 2, op |-> "Or", mode |-> "none"],
      [text |-> <<"&", "&">>, rung |-> 3, op |-> "And", mode |-> "none"],
      [text |-> <<"=", "=">>, rung |-> 4, op |-> "Eq", mode |-> "none"],
      [text |-> <<"<">>, rung |-> 5, op |-> "Lt", mode |-> "none"],
      [text |-> <<">">>, rung |-> 5, op |-> "Gt", mode |-> "none"],
      [text |-> <<"+">>, rung |-> 6, op |-> "Add", mode |-> "none"],
      [text |-> <<"*">>, rung |-> 7, op |-> "Mul", mode |-> "none"] }

\* a tree without its spans: a name (typed when it carries type
\* arguments), an integer, a binary node
NameLeaf(ident, typed) == [k |-> "Name", ident |-> ident, typed |-> typed]
IntLeaf(value) == [k |-> "Int", value |-> value]
BinaryNode(o, mode, left, right) ==
    [k |-> "Binary", op |-> o, mode |-> mode, left |-> left, right |-> right]

IdOperand(c) == [text |-> <<c>>, leaf |-> NameLeaf(<<c>>, FALSE)]
IntOperand(c, n) == [text |-> <<c>>, leaf |-> IntLeaf(n)]

\* the operands of an input, by position: a b c d, 1 b 3 d, a 2 c 4
LadderOperands ==
    { << IdOperand("a"), IdOperand("b"), IdOperand("c"), IdOperand("d") >>,
      << IntOperand("1", 1), IdOperand("b"), IntOperand("3", 3),
         IdOperand("d") >>,
      << IdOperand("a"), IntOperand("2", 2), IdOperand("c"),
         IntOperand("4", 4) >> }

RECURSIVE OpSeqs(_)
OpSeqs(n) ==
    IF n = 0 THEN { <<>> }
    ELSE LET shorter == OpSeqs(n - 1) IN
         shorter \cup { Append(s, o) : s \in shorter, o \in LadderOps }

\* a case: Len(ops) operators between Len(ops) + 1 operands
LadderCases ==
    { [operands |-> SubSeq(xs, 1, Len(os) + 1), ops |-> os] :
          xs \in LadderOperands, os \in OpSeqs(MaxOps) }

\* the source text of a case, from its i-th operand on
RECURSIVE TextFrom(_, _)
TextFrom(c, i) ==
    c.operands[i].text
    \o (IF i > Len(c.ops) THEN <<>>
        ELSE c.ops[i].text \o TextFrom(c, i + 1))

InitLadder ==
    /\ \E c \in LadderCases :
           /\ parser = Parser(TextFrom(c, 1))
           /\ op = [name |-> "init", ok |-> TRUE, case |-> c]
    /\ pushed = <<>>
    /\ table = NoTable
    /\ tlast = Idle
    /\ builder = Idle

Expr9 ==
    LET r == Call("parse_expr9", parser) IN
    /\ op.name = "init"
    /\ parser' = r.P
    /\ op' = [name |-> "parse_expr9", ok |-> r.ok, pre |-> parser,
              v |-> r.v, case |-> op.case]
    /\ UNCHANGED <<pushed, table, tlast, builder>>

NextLadder == Expr9

SpecLadder == InitLadder /\ [][NextLadder]_vars

\* the tree the parser built, without its spans
RECURSIVE Strip(_)
Strip(expr) ==
    CASE expr.k = "Name" -> NameLeaf(expr.name.ident, expr.type_args # None)
      [] expr.k = "Lit" -> IntLeaf(expr.literal.value)
      [] expr.k = "Binary" ->
           BinaryNode(expr.op,
                      IF expr.op = "Assign" THEN expr.mode ELSE "none",
                      Strip(expr.left), Strip(expr.right))

\* the tree of the ladder for the operands i .. j of the case c: the
\* loosest operator between them is the root; among assignments the
\* leftmost one, among the operators of another rung the rightmost one
RECURSIVE LadderTree(_, _, _)
LadderTree(c, i, j) ==
    IF i = j THEN c.operands[i].leaf
    ELSE LET between == i .. (j - 1)
             loosest == CHOOSE r \in { c.ops[k].rung : k \in between } :
                            \A k \in between : r <= c.ops[k].rung
             at == { k \in between : c.ops[k].rung = loosest }
             root == IF loosest = 1
                     THEN CHOOSE k \in at : \A l \in at : k <= l
                     ELSE CHOOSE k \in at : \A l \in at : k >= l
         IN  BinaryNode(c.ops[root].op, c.ops[root].mode,
                        LadderTree(c, i, root), LadderTree(c, root + 1, j))

\* an identifier operand is followed by `<`, an identifier and `>`: the
\* text reads as the identifier with a type argument
HasTypeArgs(c) ==
    \E k \in 1 .. (Len(c.ops) - 1) :
        /\ c.operands[k].leaf.k = "Name"
        /\ c.ops[k].op = "Lt"
        /\ c.operands[k + 1].leaf.k = "Name"
        /\ c.ops[k + 1].op = "Gt"

\* C13, as stated: operator precedence and associativity.  For every
\* sequence of primary operands separated by binary operators parse_expr9
\* builds the tree of the ladder assignment < || < && < equality <
\* relational < additive < multiplicative, the operators of one rung
\* grouping to the left and the assignments to the right, each with its
\* own left operand.
C13_Ladder ==
    op.name = "parse_expr9"
        => op.ok /\ Strip(op.v) = LadderTree(op.case, 1, Len(op.case.ops) + 1)

\* C13, amended: the same, for the sequences in which no identifier
\* operand is followed by `<`, a type and `>`.
C13_LadderWithoutTypeArgs ==
    (op.name = "parse_expr9" /\ ~HasTypeArgs(op.case))
        => op.ok /\ Strip(op.v) = LadderTree(op.case, 1, Len(op.case.ops) + 1)

\* an input such as a = b * c + d has been parsed: an assignment whose
\* right operand is a sum whose left operand is a product
C13_Witness ==
    /\ op.name = "parse_expr9" /\ op.ok
    /\ ~HasTypeArgs(op.case)
    /\ Len(op.case.ops) = MaxOps
    /\ op.v.k = "Binary" /\ op.v.op = "Assign"
    /\ op.v.right.k = "Binary" /\ op.v.right.op = "Add"
    /\ op.v.right.left.k = "Binary" /\ op.v.right.left.op = "Mul"

(***************************************************************************)
(*                 NODES AND PATHS UNDER AN ARBITRARY CLIENT               *)
(* The client of this specification builds a tree of up to MaxLookupNodes  *)
(* nodes that are all called M, so that a node may have two children of    *)
(* one name and a child of the name of its parent, registers symbols under *)
(* the name C, imports once, and asks for nodes and for symbols by path.   *)
(* Every operation leaves in table the Table it returns.                   *)
(***************************************************************************)

MaxLookupNodes == 3
MaxLookupSyms == 2

\* open M.C and open M.*
LookupImports ==
    { NodeImport("M", << NodeImport("C", <<>>, EmptySpan) >>, EmptySpan),
      NodeImport("M", << WildImport(EmptySpan) >>, EmptySpan) }

\* C, M.C, M.M.C and C.C
PathLookups ==
    { <<"C", <<>>>>, <<"M", <<"C">>>>, <<"M", <<"M", "C">>>>,
      <<"C", <<"C">>>> }

InitLookup ==
    /\ parser = Idle
    /\ pushed = <<>>
    /\ op = [name |-> "init", ok |-> TRUE, imports |-> 0, importers |-> {}]
    /\ table = Table("root")
    /\ tlast = Idle
    /\ builder = Idle

LookupAddNode ==
    /\ Len(table.nodes) < MaxLookupNodes
    /\ table' = add_node(table, "M", "Module")
    /\ tlast' = [name |-> "add_node", ok |-> TRUE, ident |-> "M"]
    /\ UNCHANGED <<parser, pushed, op, builder>>

LookupAddTypeSymbol ==
    \E symbol \in TypeSymbols :
        /\ Cardinality(OwnSymbols(table)) < MaxLookupSyms
        /\ table' = add_type_symbol(table, "C", symbol)
        /\ tlast' = [name |-> "add_type_symbol", ok |-> TRUE, ident |-> "C"]
        /\ UNCHANGED <<parser, pushed, op, builder>>

LookupAddExprSymbol ==
    \E symbol \in ExprSymbols :
        /\ Cardinality(OwnSymbols(table)) < MaxLookupSyms
        /\ table' = add_expr_symbol(table, "C", symbol)
        /\ tlast' = [name |-> "add_expr_symbol", ok |-> TRUE, ident |-> "C"]
        /\ UNCHANGED <<parser, pushed, op, builder>>

LookupEnterNode ==
    LET r == enter_node(table, "M") IN
    /\ table' = r.T
    /\ tlast' = [name |-> "enter_node", ok |-> r.ok, ident |-> "M"]
    /\ UNCHANGED <<parser, pushed, op, builder>>

LookupExitNode ==
    LET r == exit_node(table) IN
    /\ table' = r.T
    /\ tlast' = [name |-> "exit_node", ok |-> r.ok]
    /\ UNCHANGED <<parser, pushed, op, builder>>

LookupImport ==
    \E imp \in LookupImports :
        LET r == import(table, imp) IN
        /\ op.imports < MaxImports
        /\ table' = r.T
        /\ tlast' = [name |-> "import", ok |-> r.ok, imp |-> imp]
        /\ op' = [op EXCEPT !.imports = @ + 1,
                            !.importers = IF r.ok THEN @ \cup {table.active}
                                          ELSE @]
        /\ UNCHANGED <<parser, pushed, builder>>

\* table.get_active()->find_node(ident)
FindNode ==
    \E ident \in {"M", "C"} :
        LET r == find_node(table, table.active, ident) IN
        /\ table' = r.T
        /\ tlast' = [name |-> "find_node", ok |-> r.ok, ident |-> ident,
                     v |-> r.v]
        /\ UNCHANGED <<parser, pushed, op, builder>>

\* table.find_type_symbol(ident, path) and table.find_expr_symbol(ident, path)
FindByPath ==
    \E field \in {"types", "exprs"}, q \in PathLookups :
        LET r == IF field = "types"
                 THEN find_type_symbol(table, q[1], q[2])
                 ELSE find_expr_symbol(table, q[1], q[2])
        IN  /\ table' = r.T
            /\ tlast' = [name |-> "find_symbol", ok |-> r.ok,
                         field |-> field, ident |-> q[1], path |-> q[2],
                         v |-> r.v]
            /\ UNCHANGED <<parser, pushed, op, builder>>

NextLookup ==
    \/ LookupAddNode
    \/ LookupAddTypeSymbol
    \/ LookupAddExprSymbol
    \/ LookupEnterNode
    \/ LookupExitNode
    \/ LookupImport
    \/ FindNode
    \/ FindByPath

SpecLookup == InitLookup /\ [][NextLookup]_vars

\* node n and its ancestors
RECURSIVE Up(_, _)
Up(T, n) == IF n = 0 THEN {} ELSE {n} \cup Up(T, T.nodes[n].parent)

\* the nodes that node n has registered in nested under the name k
Children(T, n, k) == MapAt(T.nodes[n].nested, k)

\* the nearest of the active node and its ancestors whose nested map
\* contains ident: every other such node is one of its ancestors
BaseNodes(T, ident) ==
    { a \in Up(T, T.active) :
        /\ ident \in DOMAIN T.nodes[a].nested
        /\ \A b \in Up(T, T.active) \ {a} :
              ident \in DOMAIN T.nodes[b].nested => b \in Up(T, a) }

\* the walks from node base along ident, path[1], ..., path[n - 1] in
\* which every step has exactly one node to go to
Walks(T, base, ident, path) ==
    { w \in [1 .. Len(path) -> DOMAIN T.nodes] :
        \A i \in 1 .. Len(path) :
            Children(T, IF i = 1 THEN base ELSE w[i - 1],
                        IF i = 1 THEN ident ELSE path[i - 1]) = {w[i]} }

\* the symbols a lookup by path may return: the single symbol, if there is
\* one, that the node at the end of a walk holds under the last segment
PathTargets(T, field, ident, path) ==
    { s \in UNION { MapAt(T.nodes[n][field], path[Len(path)]) :
                      n \in DOMAIN T.nodes } :
        \E base \in BaseNodes(T, ident) :
            \E w \in Walks(T, base, ident, path) :
                MapAt(T.nodes[w[Len(path)]][field], path[Len(path)]) = {s} }

\* C14: find_type_symbol(ident, path) and find_expr_symbol(ident, path)
\* with a non-empty path take the nearest node, from the active node
\* upwards, whose nested map contains ident, enter that child, descend
\* through path[0 .. n-2] and return the single symbol named path[n-1] in
\* the types (resp. exprs) of the node reached; the lookup fails when no
\* ancestor has ident nested, when a step is missing or ambiguous, or when
\* the last segment is missing or ambiguous.
C14_PathfulLookup ==
    (tlast.name = "find_symbol" /\ tlast.path # <<>>) =>
        LET targets == PathTargets(table, tlast.field, tlast.ident,
                                   tlast.path)
        IN  /\ tlast.ok <=> targets # {}
            /\ tlast.ok => tlast.v \in targets

\* from a node below the root a lookup by path has climbed to the parent
\* of the active node, gone down from there and returned the symbol
\* root.M.C
C14_Witness ==
    /\ tlast.name = "find_symbol" /\ tlast.ok
    /\ tlast.path # <<>>
    /\ table.active # 1
    /\ BaseNodes(table, tlast.ident) = {table.nodes[table.active].parent}
    /\ tlast.v.path = <<"root", "M", "C">>

\* C15: TableNode::find_node(ident) resolves to exactly one child node.
\* It returns the node when exactly one node is registered under ident,
\* fails with a not-found error when the node has no child named ident,
\* and fails with an ambiguity error when more than one node is registered
\* under ident, in every reachable table state, also after an import.
C15_FindNodeExactlyOne ==
    tlast.name = "find_node" =>
        LET held == Children(table, table.active, tlast.ident)
        IN  /\ Cardinality(held) = 1 => tlast.ok /\ tlast.v \in held
            /\ Cardinality(held) = 0
                  => ~tlast.ok /\ tlast.v = "Node not found"
            /\ Cardinality(held) > 1
                  => ~tlast.ok /\ tlast.v = "Ambiguous node"

\* C16: resolution stability.  A successful find_type_symbol(ident, path)
\* or find_expr_symbol(ident, path) changes neither the contents of the
\* table nor the active cursor, and the same call made again from the
\* same active node returns a Symbol of equal kind and path.
C16_ResolutionStable ==
    [][(tlast'.name = "find_symbol" /\ tlast'.ok) =>
          LET again == find_symbol(table', tlast'.field, tlast'.ident,
                                   tlast'.path)
          IN  /\ table'.nodes = table.nodes
              /\ table'.active = table.active
              /\ again.ok
              /\ again.v.kind = tlast'.v.kind
              /\ again.v.path = tlast'.v.path]_vars

\* the lookup M.M.C has succeeded two nodes below the root, and so has
\* the same lookup made once more
C16_Witness ==
    /\ tlast.name = "find_symbol" /\ tlast.ok
    /\ tlast.path = <<"M", "C">>
    /\ tlast.v.path = <<"root", "M", "M", "C">>
    /\ find_symbol(table, tlast.field, tlast.ident, tlast.path).ok

(***************************************************************************)
(*                  THE FIRST PASS OF THE TABLE BUILDER                    *)
(* build_constants alone, on the table of a new TableBuilder and a         *)
(* package of at most MaxDecls of the declarations below.                  *)
(***************************************************************************)

\* the declarations the packages of the first pass are made of:
\*   module M { class C {} enum E { case A case B(Int) } }
\*   class D { init() func g() }           interface I { func g() }
\*   extension Int: I { func g() }         type T = Int
\*   func f()      enum F { case A }       module K {}
ConstantDecls ==
    { Decl("Module", "M", "Public",
           << Decl("Class", "C", "Public", <<>>),
              Decl("Enum", "E", "Public",
                   << Decl("Ctor", "A", "Public", <<>>),
                      Decl("Ctor", "B", "Public", <<>>) >>) >>),
      Decl("Class", "D", "Public",
           << Decl("Init", "", "Public", <<>>),
              Decl("Func", "g", "Public", <<>>) >>),
      Decl("Interface", "I", "Public",
           << Decl("Func", "g", "Public", <<>>) >>),
      Decl("Extension", "", "Public",
           << Decl("Func", "g", "Public", <<>>) >>),
      Decl("Typealias", "T", "Public", <<>>),
      Decl("Func", "f", "Public", <<>>),
      Decl("Enum", "F", "Public", << Decl("Ctor", "A", "Public", <<>>) >>),
      Decl("Module", "K", "Public", <<>>) }

ConstantPackages ==
    UNION { [1 .. n -> ConstantDecls] : n \in 0 .. MaxDecls }

InitConstants ==
    /\ parser = Idle
    /\ pushed = <<>>
    /\ op = Idle
    /\ table = Table("root")
    /\ tlast = Idle
    /\ builder \in { [stage |-> "parsed", ok |-> TRUE, src |-> p, pkg |-> p] :
                       p \in ConstantPackages }

BuildConstants ==
    LET r == pass("build_constants", table, builder.pkg, 1) IN
    /\ builder.stage = "parsed"
    /\ table' = r.T
    /\ builder' = [builder EXCEPT !.stage = "constants", !.ok = r.ok,
                                  !.pkg = IF r.ok THEN r.v ELSE @]
    /\ tlast' = [name |-> "build_constants", ok |-> r.ok]
    /\ UNCHANGED <<parser, pushed, op>>

NextConstants == BuildConstants

SpecConstants == InitConstants /\ [][NextConstants]_vars

NodeKinds == {"Module", "Class", "Enum", "Interface", "Extension"}

\* the (identifier, kind) pairs of the symbols node n holds in `field`
Held(T, n, field) ==
    UNION { { <<k, s.kind>> : s \in T.nodes[n][field][k] } :
              k \in DOMAIN T.nodes[n][field] }

\* the (identifier, kind) pairs of the declarations of decls whose kind
\* is in kinds
Declared(decls, kinds) ==
    { <<decls[i].ident, decls[i].k>> :
        i \in { j \in DOMAIN decls : decls[j].k \in kinds } }

\* node n of T mirrors the declarations decls: its types are those of the
\* classes, enums, interfaces, extensions and typealiases, its exprs those
\* of the funcs, inits and ctors, and its children are one node for each
\* module, class, enum, interface and extension, of that identifier and
\* kind, with n as parent, which mirrors the body in turn
RECURSIVE Mirrors(_, _, _)
Mirrors(T, n, decls) ==
    /\ Held(T, n, "types")
          = Declared(decls, {"Class", "Enum", "Interface", "Extension",
                             "Typealias"})
    /\ Held(T, n, "exprs") = Declared(decls, {"Func", "Init", "Ctor"})
    /\ DOMAIN T.nodes[n].nested
          = { p[1] : p \in Declared(decls, NodeKinds) }
    /\ \A i \in DOMAIN decls :
          decls[i].k \in NodeKinds =>
              /\ Cardinality(Children(T, n, decls[i].ident)) = 1
              /\ \A c \in Children(T, n, decls[i].ident) :
                    /\ T.nodes[c].parent = n
                    /\ T.nodes[c].ident = decls[i].ident
                    /\ T.nodes[c].kind = decls[i].k
                    /\ Mirrors(T, c, decls[i].body)

\* C17: build_constants mirrors the declaration tree.  Each Class, Enum,
\* Interface and Extension inserts a type symbol into the types of the
\* enclosing node and creates exactly one child node of the declaration's
\* identifier whose parent is the enclosing node; a Module creates such a
\* node and no type symbol; a Typealias registers a type symbol only; Func,
\* Init and Ctor register an expr symbol only, in the node of the enclosing
\* declaration.
C17_MirrorsDeclarations ==
    (builder.stage = "constants" /\ builder.ok) =>
        Mirrors(table, 1, builder.pkg)

(***************************************************************************)
(*                       THE LEXER ON ONE LITERAL                          *)
(* The input is a string literal or a character literal with one escape    *)
(* sequence, or a string of digits; the client calls next() once.          *)
(* op records what next() returned, or that it threw.                      *)
(***************************************************************************)

\* the character after the backslash: the escapes of the language, and
\* three characters that are no escape
EscapeLetters == {"n", "t", "r", "BSL", "SQ", "DQ", "0", "a", "x", "SP"}

\* "\e" and "a\eb"
StringInputs ==
    { <<"DQ", "BSL", e, "DQ">> : e \in EscapeLetters }
    \cup { <<"DQ", "a", "BSL", e, "b", "DQ">> : e \in EscapeLetters }

\* '\e'
CharInputs == { <<"SQ", "BSL", e, "SQ">> : e \in EscapeLetters }

\* digit strings around the largest int and around 2^32, short ones, and
\* ones with leading zeros
DigitStrings ==
    { <<"0">>, <<"7">>, <<"1", "2">>, <<"0", "0", "7">>, <<"9", "0">>,
      <<"9", "9", "9", "9", "9", "9", "9", "9", "9">>,
      <<"1", "0", "0", "0", "0", "0", "0", "0", "0", "0">>,
      <<"2", "1", "4", "7", "4", "8", "3", "6", "4", "6">>,
      <<"2", "1", "4", "7", "4", "8", "3", "6", "4", "7">>,
      <<"2", "1", "4", "7", "4", "8", "3", "6", "4", "8">>,
      <<"2", "1", "4", "7", "4", "8", "3", "6", "5", "0">>,
      <<"3", "0", "0", "0", "0", "0", "0", "0", "0", "0">>,
      <<"4", "2", "9", "4", "9", "6", "7", "2", "9", "5">>,
      <<"4", "2", "9", "4", "9", "6", "7", "2", "9", "6">>,
      <<"4", "2", "9", "4", "9", "6", "7", "2", "9", "7">>,
      <<"4", "2", "9", "4", "9", "6", "7", "3", "0", "8">>,
      <<"9", "9", "9", "9", "9", "9", "9", "9", "9", "9">>,
      <<"0", "2", "1", "4", "7", "4", "8", "3", "6", "4", "7">>,
      <<"0", "2", "1", "4", "7", "4", "8", "3", "6", "4", "8">>,
      <<"2", "1", "4", "7", "4", "8", "3", "6", "4", "7", "0">>,
      <<"1", "0", "0", "0", "0", "0", "0", "0", "0", "0", "0", "0">> }

\* a digit string alone, and one followed by something else
NumberInputs ==
    DigitStrings \cup { d \o <<"SP", "x">> : d \in DigitStrings }

LiteralInputs == StringInputs \cup CharInputs \cup NumberInputs

InitLiteral ==
    /\ parser \in { Parser(i) : i \in LiteralInputs }
    /\ pushed = <<>>
    /\ op = Idle
    /\ table = NoTable
    /\ tlast = Idle
    /\ builder = Idle

LexLiteral ==
    LET returned(r) ==
            /\ parser' = [parser EXCEPT !.lexer = r.L]
            /\ op' = [name |-> "next", ok |-> r.ok, tok |-> r.tok]
    IN  /\ op.name = "init"
        /\ returned(LexNext(parser.lexer))
        /\ UNCHANGED <<pushed, table, tlast, builder>>

NextLiteral == LexLiteral

SpecLiteral == InitLiteral /\ [][NextLiteral]_vars

\* the character an escape sequence of a string literal stands for
EscapedChar(e) ==
    CASE e = "n" -> "NL" [] e = "t" -> "TAB" [] e = "r" -> "CR"
      [] e = "BSL" -> "BSL" [] e = "SQ" -> "SQ" [] e = "0" -> "NUL"
      [] e = "DQ" -> "DQ"

\* the escapes of a character literal, and those of a string literal
CharEscapes == {"n", "t", "r", "BSL", "SQ", "0"}
StringEscapes == CharEscapes \cup {"DQ"}

\* the text of the string literal `input` with its one escape sequence,
\* which begins at position p, replaced by the character c
Unescaped(input, p, c) ==
    SubSeq(input, 2, p - 1) \o <<c>> \o SubSeq(input, p + 2, Len(input) - 1)

\* C18: a string literal accepts every escape sequence that a character
\* literal accepts (\n \t \r \\ \' \0) and \" as well.  For each of these
\* seven, lexing a string literal that contains it succeeds and the lexeme
\* holds the character it stands for; any other escape fails.
C18_StringEscapes ==
    (op.name = "next" /\ parser.lexer.input \in StringInputs) =>
        LET input == parser.lexer.input
            p == CHOOSE i \in DOMAIN input : input[i] = "BSL"
            e == input[p + 1]
        IN  IF e \in StringEscapes
            THEN /\ op.ok
                 /\ op.tok.kind = "String"
                 /\ parser.lexer.state.lexeme
                       = Unescaped(input, p, EscapedChar(e))
            ELSE ~op.ok

\* the digit string that input begins with
RECURSIVE LeadingDigits(_)
LeadingDigits(input) ==
    IF input = <<>> \/ input[1] \notin Digits THEN <<>>
    ELSE <<input[1]>> \o LeadingDigits(Tail(input))

\* a digit string without its leading zeros
RECURSIVE Significant(_)
Significant(s) ==
    IF s # <<>> /\ s[1] = "0" THEN Significant(Tail(s)) ELSE s

\* the digits of the largest int, 2^31 - 1
INT_MAX_DIGITS == <<"2", "1", "4", "7", "4", "8", "3", "6", "4", "7">>

\* digit strings of one length: s is not after t in the dictionary
RECURSIVE NotGreater(_, _)
NotGreater(s, t) ==
    \/ s = <<>>
    \/ DigitVal(s[1]) < DigitVal(t[1])
    \/ s[1] = t[1] /\ NotGreater(Tail(s), Tail(t))

\* the value of the digit string s fits an int
Fits(s) ==
    LET t == Significant(s) IN
    \/ Len(t) < Len(INT_MAX_DIGITS)
    \/ Len(t) = Len(INT_MAX_DIGITS) /\ NotGreater(t, INT_MAX_DIGITS)

\* the decimal value of a digit string that fits
RECURSIVE DecimalValue(_)
DecimalValue(s) ==
    IF s = <<>> THEN 0
    ELSE 10 * DecimalValue(SubSeq(s, 1, Len(s) - 1)) + DigitVal(s[Len(s)])

\* C19: integer literals never wrap.  For every digit string lex_number
\* either fails with an error or yields an Int token whose int_value is
\* the decimal value of the lexeme; a literal whose value does not fit the
\* integer representation is rejected, never truncated or wrapped.
C19_IntegersNeverWrap ==
    (op.name = "next" /\ parser.lexer.input \in NumberInputs) =>
        LET digits == LeadingDigits(parser.lexer.input) IN
        /\ op.ok => /\ op.tok.kind = "Int"
                    /\ parser.lexer.state.lexeme = digits
                    /\ Fits(digits)
                    /\ parser.lexer.state.int_value = DecimalValue(digits)
        /\ ~Fits(digits) => ~op.ok

\* 2147483647, the largest literal that fits, has been lexed to its value,
\* leading zero or not
C19_Witness ==
    /\ op.name = "next" /\ op.ok
    /\ Significant(LeadingDigits(parser.lexer.input)) = INT_MAX_DIGITS
    /\ parser.lexer.state.int_value = INT_MAX

(***************************************************************************)
(*                     THE LEXER UNDER PEEK AND NEXT                       *)
(* The client calls peek() and next() in any order on a lexer over a       *)
(* bounded input.  op records the last call and the token it returned,     *)
(* the tokens that the calls of next() returned so far, at most            *)
(* MaxReturned of them, and whether peek() was ever called.                *)
(***************************************************************************)

MaxReturned == 4

InitPeek ==
    /\ parser \in { Parser(i) : i \in LexInputs }
    /\ pushed = <<>>
    /\ op = [name |-> "init", ok |-> TRUE, tok |-> NoToken,
             returned |-> <<>>, peeked |-> FALSE]
    /\ table = NoTable
    /\ tlast = Idle
    /\ builder = Idle

PeekToken ==
    LET returned(r) ==
            /\ parser' = [parser EXCEPT !.lexer = r.L]
            /\ op' = [op EXCEPT !.name = "peek", !.ok = r.ok, !.tok = r.tok,
                                !.peeked = TRUE]
    IN  /\ returned(LexPeek(parser.lexer))
        /\ UNCHANGED <<pushed, table, tlast, builder>>

NextToken ==
    LET returned(r) ==
            /\ parser' = [parser EXCEPT !.lexer = r.L]
            /\ op' = [op EXCEPT !.name = "next", !.ok = r.ok, !.tok = r.tok,
                                !.returned = IF r.ok THEN Append(@, r.tok)
                                             ELSE @]
    IN  /\ Len(op.returned) < MaxReturned
        /\ returned(LexNext(parser.lexer))
        /\ UNCHANGED <<pushed, table, tlast, builder>>

NextPeek ==
    \/ PeekToken
    \/ NextToken

SpecPeek == InitPeek /\ [][NextPeek]_vars

\* the first n tokens that next() returns when nothing but next() is
\* called on the lexer L; a call that throws returns no token, and calls
\* are made at most `calls` times
RECURSIVE NextOnly(_, _, _)
NextOnly(L, n, calls) ==
    IF n = 0 \/ calls = 0 THEN <<>>
    ELSE LET r == LexNext(L) IN
         IF r.ok THEN <<r.tok>> \o NextOnly(r.L, n - 1, calls - 1)
         ELSE NextOnly(r.L, n, calls - 1)

\* C20: peek() is idempotent and transparent.  Consecutive calls of peek()
\* return the same token and do not advance pos, line or column after the
\* first one; the next() that follows returns that same token; for every
\* input the tokens (kinds and spans) that successive calls of next()
\* return are the same whatever calls of peek() are made in between; and
\* once the input is exhausted every further next() returns Eof.
C20_PeekTransparent ==
    [][/\ (op.name = "peek" /\ op.ok /\ op'.name = "peek")
             => /\ op'.ok
                /\ op'.tok = op.tok
                /\ parser'.lexer.state.pos = parser.lexer.state.pos
                /\ parser'.lexer.state.line = parser.lexer.state.line
                /\ parser'.lexer.state.column = parser.lexer.state.column
       /\ (op.name = "peek" /\ op.ok /\ op'.name = "next")
             => op'.ok /\ op'.tok = op.tok
       /\ op'.returned
             = NextOnly(Lexer(parser'.lexer.input), Len(op'.returned),
                        Len(parser'.lexer.input) + MaxReturned)
       /\ (/\ op'.name = "next"
           /\ is_at_end(parser.lexer)
           /\ ~parser.lexer.state.has_token)
             => op'.ok /\ op'.tok.kind = "Eof"
       /\ \A i \in 1 .. Len(op'.returned) - 1 :
             op'.returned[i].kind = "Eof" => op'.returned[i + 1].kind = "Eof"
      ]_vars

\* with calls of peek() in between, next() has returned two tokens of the
\* input and then Eof twice
C20_Witness ==
    /\ op.name = "next" /\ op.ok /\ op.peeked
    /\ Len(op.returned) = MaxReturned
    /\ op.returned[1].kind # "Eof"
    /\ op.returned[2].kind # "Eof"
    /\ op.returned[1].span # op.returned[2].span
    /\ op.returned[3].kind = "Eof"
    /\ op.returned[4] = op.returned[3]

\* ---------------------------------------------------------------------
\* THE PARSER ON ONE BLOCK
\* ---------------------------------------------------------------------

MaxStmtWords == 4

\* the pieces of a block body: an expression, an expression after a
\* space, and the terminator
BlockWords == { <<"a">>, <<"SP", "b">>, <<";">> }

\* `{` body `}`
BlockInputs ==
    { <<"{">> \o b \o <<"}">> : b \in Concats(BlockWords, MaxStmtWords) }

InitBlock ==
    /\ parser \in { Parser(i) : i \in BlockInputs }
    /\ pushed = <<>>
    /\ op = Idle
    /\ table = NoTable
    /\ tlast = Idle
    /\ builder = Idle

\* Parser::parse_block_expr on the whole input
ParseBlock ==
    LET returned(r) ==
            /\ parser' = r.P
            /\ op' = [name |-> "parse_block_expr", ok |-> r.ok,
                      pre |-> parser, v |-> r.v]
    IN  /\ op.name = "init"
        /\ returned(Call("parse_block_expr", parser))
        /\ UNCHANGED <<pushed, table, tlast, builder>>

NextBlock == ParseBlock

SpecBlock == InitBlock /\ [][NextBlock]_vars

\* the expression statements of a block that took no `;`
TrailingValues(block) ==
    { i \in 1..Len(block.stmts) :
        block.stmts[i].k = "Expr" /\ block.stmts[i].body.is_val }

\* C21: in every successfully parsed block, only the last statement may be
\* an expression statement without `;` (is_val = true); every earlier
\* expression statement consumed a `;`.
C21_OnlyLastIsValue ==
    (op.name = "parse_block_expr" /\ op.ok)
        => TrailingValues(op.v) \subseteq { Len(op.v.stmts) }

\* ---------------------------------------------------------------------
\* THE PARSER ON ONE IF-EXPRESSION
\* ---------------------------------------------------------------------

MaxElses == 3

\* `if a{}` and `if let a=b{}`
IteHeads ==
    { <<"i", "f", "SP", "a", "{", "}">>,
      <<"i", "f", "SP", "l", "e", "t", "SP", "a", "=", "b", "{", "}">> }

\* `else{}`, `else{a}`, `else if a{}` and `else if let a=b{}`
ElseWords ==
    { [else_if |-> FALSE, stmts |-> 0,
       text |-> <<"e", "l", "s", "e", "{", "}">>],
      [else_if |-> FALSE, stmts |-> 1,
       text |-> <<"e", "l", "s", "e", "{", "a", "}">>],
      [else_if |-> TRUE, stmts |-> 0,
       text |-> <<"e", "l", "s", "e", "SP", "i", "f", "SP", "a", "{", "}">>],
      [else_if |-> TRUE, stmts |-> 0,
       text |-> <<"e", "l", "s", "e", "SP", "i", "f", "SP", "l", "e", "t", "SP",
                  "a", "=", "b", "{", "}">>] }

\* a head followed by up to MaxElses else-words
IteCases ==
    { [head |-> h, tail |-> t] :
        h \in IteHeads,
        t \in UNION { [1..n -> ElseWords] : n \in 0..MaxElses } }

RECURSIVE IteText(_, _)
IteText(c, n) ==
    IF n = 0 THEN c.head ELSE IteText(c, n - 1) \o c.tail[n].text

InitIte ==
    /\ \E c \in IteCases :
           /\ parser = Parser(IteText(c, Len(c.tail)))
           /\ op = [name |-> "init", ok |-> TRUE, case |-> c]
    /\ pushed = <<>>
    /\ table = NoTable
    /\ tlast = Idle
    /\ builder = Idle

\* Parser::parse_ite_expr on the whole input
ParseIte ==
    LET returned(r) ==
            /\ parser' = r.P
            /\ op' = [name |-> "parse_ite_expr", ok |-> r.ok, pre |-> parser,
                      v |-> r.v, case |-> op.case]
    IN  /\ op.name = "init"
        /\ returned(Call("parse_ite_expr", parser))
        /\ UNCHANGED <<pushed, table, tlast, builder>>

NextIte == ParseIte

SpecIte == InitIte /\ [][NextIte]_vars

\* the index of the first plain `else` of a case, or one past its tail
FinalElse(c) ==
    IF \E i \in 1..Len(c.tail) : ~c.tail[i].else_if
    THEN CHOOSE i \in 1..Len(c.tail) :
             /\ ~c.tail[i].else_if
             /\ \A j \in 1..(i - 1) : c.tail[j].else_if
    ELSE Len(c.tail) + 1

\* C22: an if-expression is one `if` branch, any number of `else if`
\* branches and at most one final `else` block: parse_ite_expr stops after
\* the first `else` block, consumes no further `else` or `else if`, and
\* returns that block as the else branch.
C22_OneFinalElse ==
    op.name = "parse_ite_expr" =>
        LET c == op.case
            k == FinalElse(c)
            last == IF k > Len(c.tail) THEN Len(c.tail) ELSE k
        IN  /\ op.ok
            /\ Len(op.v.then_branches) = k
            /\ IF k > Len(c.tail)
               THEN op.v.else_branch = None
               ELSE /\ op.v.else_branch # None
                    /\ Len(op.v.else_branch[1].stmts) = c.tail[k].stmts
            /\ parser.last_span.end.column = Len(IteText(c, last)) + 1

(***************************************************************************)
(*                     THE BUILDER, ONE PASS AT A TIME                     *)
(* build() as its four calls: each step runs the next pass over the whole  *)
(* declaration tree; builder.done lists the passes that have run, and      *)
(* builder.ok is FALSE once a pass has thrown, which ends the build.       *)
(***************************************************************************)

MaxPassDecls == 3

\* A faulty build: build_variables runs before the first merge_symbols.
build_pass_variables_first(n) ==
    CASE n = 1 -> "build_constants"
      [] n = 2 -> "build_variables"
      [] n = 3 -> "merge_symbols"
      [] n = 4 -> "merge_symbols"

\* the n-th call of TableBuilder::build
build_pass(n) ==
    CASE n = 1 -> "build_constants"
      [] n = 2 -> "merge_symbols"
      [] n = 3 -> "build_variables"
      [] n = 4 -> "merge_symbols"

LetName(ident) == Decl("Let", "", "Public", NameOnly(ident))

\* open M.*
OpenM ==
    Decl("Open", "", "Public",
         NodeImport("M", << WildImport(EmptySpan) >>, EmptySpan))

\* open Option.{*, Some as S}
OpenOptionHiding ==
    Decl("Open", "", "Public",
         NodeImport("Option",
                    << WildImport(EmptySpan),
                       AliasImport("Some", Some("S"), EmptySpan) >>,
                    EmptySpan))

\* the declarations the packages are made of:
\*   enum Option { case None case Some(T) }     open Option.*
\*   let Some = 1       let x = 1               open Option.{*, Some as S}
\*   module M { let x = 1 }                     open M.*
PassDecls ==
    { EnumOption, OpenOption, OpenOptionHiding, LetName("Some"), LetName("x"),
      Decl("Module", "M", "Public", << LetName("x") >>), OpenM }

RECURSIVE PassPackages(_)
PassPackages(n) ==
    IF n = 0 THEN { <<>> }
    ELSE LET shorter == PassPackages(n - 1) IN
         shorter \cup { Append(p, d) : p \in shorter, d \in PassDecls }

InitPasses ==
    /\ parser = Idle
    /\ pushed = <<>>
    /\ op = Idle
    /\ table = Table("root")
    /\ tlast = Idle
    /\ builder \in { [stage |-> "passes", ok |-> TRUE, src |-> p, pkg |-> p,
                      done |-> <<>>] : p \in PassPackages(MaxPassDecls) }

\* the next call of build(): the pass over *decls, from the root
RunPass ==
    LET fn == build_pass(Len(builder.done) + 1)
        ran(r) ==
            /\ table' = r.T
            /\ builder' = [builder EXCEPT !.ok = r.ok,
                                          !.pkg = IF r.ok THEN r.v ELSE @,
                                          !.done = Append(@, fn)]
            /\ tlast' = [name |-> fn, ok |-> r.ok]
    IN  /\ builder.ok
        /\ Len(builder.done) < 4
        /\ ran(pass(fn, table, builder.pkg, 1))
        /\ UNCHANGED <<parser, pushed, op>>

NextPasses == RunPass

SpecPasses == InitPasses /\ [][NextPasses]_vars

\* the first n passes have run and returned
Passed(n) ==
    Len(builder.done) > n \/ (Len(builder.done) = n /\ builder.ok)

\* the symbols of kind Var that table T holds anywhere
VarSymbols(T) ==
    { e.s : e \in { x \in UNION { Stored(T, n) : n \in DOMAIN T.nodes } :
                      x.s.kind = "Var" } }

\* some node of T holds a symbol that another node registered
HasImported(T) ==
    \E n \in DOMAIN T.nodes : \E e \in Stored(T, n) :
        e.s.path # Append(T.nodes[n].path, e.k)

\* the number of nodes that the declarations decls create
RECURSIVE NodeDecls(_)
NodeDecls(decls) ==
    IF decls = <<>> THEN 0
    ELSE (IF decls[1].k \in NodeKinds THEN 1 + NodeDecls(decls[1].body) ELSE 0)
         + NodeDecls(Tail(decls))

\* the patterns of the let declarations of decls, in order
RECURSIVE LetPats(_)
LetPats(decls) ==
    IF decls = <<>> THEN <<>>
    ELSE (CASE decls[1].k = "Let" -> << decls[1].pat >>
            [] decls[1].k \in NodeKinds -> LetPats(decls[1].body)
            [] OTHER -> <<>>)
         \o LetPats(Tail(decls))

\* the top-level declarations `open name.*` of decls
OpensAll(decls, name) ==
    \E i \in DOMAIN decls :
        /\ decls[i].k = "Open"
        /\ decls[i].import = NodeImport(name, << WildImport(EmptySpan) >>,
                                        EmptySpan)

\* C23: the passes of build() run in the order build_constants,
\* merge_symbols, build_variables, merge_symbols.  build_constants has
\* created every node before the first import is processed; every open has
\* been processed before build_variables rewrites a pattern or registers a
\* Var; every open is processed again after the last Var was registered, so
\* that the Vars of an opened module are in the opening node; and a
\* top-level let whose name pattern names a constructor that an open of the
\* same node imports is rewritten to a CtorPat and registers no Var.
C23_PassOrder ==
    LET done == builder.done
        order == << "build_constants", "merge_symbols", "build_variables",
                    "merge_symbols" >>
        root == table.nodes[1]
    IN  /\ Len(done) <= 4 /\ done = SubSeq(order, 1, Len(done))
        /\ Len(done) <= 1 => ~HasImported(table)
        /\ Passed(1) => Len(table.nodes) = 1 + NodeDecls(builder.src)
        /\ Len(done) <= 2 =>
              /\ VarSymbols(table) = {}
              /\ LetPats(builder.pkg) = LetPats(builder.src)
        /\ Passed(3) =>
              \A i \in DOMAIN builder.src : \A c \in {"None", "Some"} :
                  (/\ builder.src[i] = LetName(c)
                   /\ OpensAll(builder.src, "Option"))
                  => /\ builder.pkg[i].pat.k = "Ctor"
                     /\ \A s \in MapAt(root.exprs, c) : s.kind # "Var"
        /\ Passed(4) =>
              \A m \in Children(table, 1, "M") :
                  OpensAll(builder.src, "M") =>
                      \A e \in Stored(table, m) :
                          e.s.kind = "Var" => e.s \in MapAt(root.exprs, e.k)

\* build() has returned on `enum Option {...}  open Option.*  let Some = 1`
\* in some order, next to nothing else: the let holds a CtorPat
C23_Witness ==
    /\ builder.done = << "build_constants", "merge_symbols", "build_variables",
                         "merge_symbols" >>
    /\ builder.ok
    /\ OpensAll(builder.src, "Option")
    /\ \E i \in DOMAIN builder.src :
          /\ builder.src[i] = LetName("Some")
          /\ builder.pkg[i].pat.k = "Ctor"

\* the whole of build() is the four passes in a row
PassesAreBuild ==
    Len(builder.done) = 4 \/ ~builder.ok =>
        LET b == build(Table("root"), builder.src) IN
        /\ b.ok = builder.ok
        /\ b.T = table
        /\ b.ok => b.v = builder.pkg

\* table T grew into table U: every node of T is a node of U with the same
\* identity, every key of its types, exprs and nested is still a key, and
\* every symbol or node an entry held is still in the entry
Grew(T, U) ==
    /\ Len(T.nodes) <= Len(U.nodes)
    /\ \A n \in DOMAIN T.nodes :
          /\ U.nodes[n].ident = T.nodes[n].ident
          /\ U.nodes[n].kind = T.nodes[n].kind
          /\ U.nodes[n].path = T.nodes[n].path
          /\ U.nodes[n].parent = T.nodes[n].parent
          /\ \A f \in Fields :
                /\ DOMAIN T.nodes[n][f] \subseteq DOMAIN U.nodes[n][f]
                /\ \A k \in DOMAIN T.nodes[n][f] :
                      T.nodes[n][f][k] \subseteq U.nodes[n][f][k]

\* C24: across every step of build() (build_constants, both merge_symbols
\* passes, build_variables) the table only grows: no step removes a node, a
\* map entry, or a Symbol or node from an entry.
C24_OnlyGrows == [][Grew(table, table')]_vars

\* the second merge_symbols has added, to the identifier the root
\* registered a Var under, the Var of the same name of an opened module
C24_Witness ==
    /\ Len(builder.done) = 4 /\ builder.ok
    /\ Cardinality(MapAt(table.nodes[1].exprs, "x")) = 2

\* the column after the last token of the node expr of a ladder input,
\* read off the tree: the operands are one character long and nothing
\* separates the tokens, so a name or a literal ends one column after its
\* start, a name with type arguments after the `>` that follows its last
\* argument, and a binary node where its right operand ends
RECURSIVE EndOf(_)
EndOf(expr) ==
    CASE expr.k = "Binary" -> EndOf(expr.right)
      [] expr.k = "Name" /\ expr.type_args # None ->
           LET args == expr.type_args[1] IN
           args[Len(args)].span.end.column + 1
      [] OTHER -> expr.span.start.column + 1

\* every node of the tree expr ends where its last token ends
RECURSIVE SpanEnds(_)
SpanEnds(expr) ==
    /\ expr.span.end.column = EndOf(expr)
    /\ expr.k = "Binary" => SpanEnds(expr.left) /\ SpanEnds(expr.right)

\* C25: the span of every node ends at the end of the last token consumed
\* as part of that node; tokens consumed only inside a speculation that
\* restore_checkpoint rolled back do not move the end of any span (in
\* `a<b` the name expression `a` ends where the token `a` ends).  Stated
\* on the trees parse_expr9 builds from the ladder inputs.
C25_SpanEndsAtLastToken ==
    (op.name = "parse_expr9" /\ op.ok) => SpanEnds(op.v)

(***************************************************************************)
(*                 build_variables, ONE DECLARATION AT A TIME              *)
(* The third pass of build() on the root, each step one iteration of its   *)
(* loop, after build_constants and merge_symbols have run on a package of  *)
(* at most MaxLets let declarations with or without an opened enum before  *)
(* them.  tlast keeps the table before the step and the declaration as    *)
(* the step left it.                                                       *)
(***************************************************************************)

MaxLets == 2

\* the patterns of the let declarations:
\*   a      (mut a, _, b @ _)      Some      Some(a)      1 | b
LetPatterns ==
    { NameOnly("a"),
      TuplePat(<< NamePat(Name("a", <<>>), None, MetaType(EmptySpan), TRUE,
                          EmptySpan),
                  WildPat(EmptySpan),
                  AtPat(Name("b", <<>>), MetaType(EmptySpan), FALSE,
                        WildPat(EmptySpan), EmptySpan) >>,
               EmptySpan),
      NameOnly("Some"),
      CtorPat(Name("Some", <<>>), None, Some(<< NameOnly("a") >>), EmptySpan),
      OrPat(<< LitPat(Lit("Int", 1, EmptySpan), EmptySpan), NameOnly("b") >>,
            EmptySpan) }

LetDecls ==
    { Decl("Let", "", access, pat) :
          access \in {"Public", "Private"}, pat \in LetPatterns }

RECURSIVE LetSeqs(_)
LetSeqs(n) ==
    IF n = 0 THEN { <<>> }
    ELSE LET shorter == LetSeqs(n - 1) IN
         shorter \cup { Append(s, d) : s \in shorter, d \in LetDecls }

VariablePackages ==
    { before \o lets :
          before \in { <<>>, << EnumOption, OpenOption >> },
          lets \in LetSeqs(MaxLets) \ { <<>> } }

\* build() up to the call of build_variables
InitVariables ==
    /\ parser = Idle
    /\ pushed = <<>>
    /\ op = Idle
    /\ tlast = Idle
    /\ \E p \in VariablePackages :
           LET r == then_pass(pass("build_constants", Table("root"), p, 1),
                              "merge_symbols")
           IN  /\ r.ok
               /\ table = r.T
               /\ builder = [stage |-> "variables", ok |-> TRUE,
                             decls |-> r.v, at |-> 1]

\* one iteration of the loop of build_variables over *decls
VisitDecl ==
    LET decl == builder.decls[builder.at]
        visited(r) ==
            /\ table' = r.T
            /\ builder' = [builder EXCEPT !.ok = r.ok, !.at = @ + 1]
            /\ tlast' = [name |-> "build_variables", ok |-> r.ok,
                         pre |-> table,
                         decl |-> IF r.ok THEN r.v[1] ELSE decl]
    IN  /\ builder.ok
        /\ builder.at <= Len(builder.decls)
        /\ visited(pass("build_variables", table, << decl >>, 1))
        /\ UNCHANGED <<parser, pushed, op>>

NextVariables == VisitDecl

SpecVariables == InitVariables /\ [][NextVariables]_vars

\* C26: pat_add_vars registers, for every Name pattern and every At
\* pattern identifier that remains in the rewritten pattern of a let
\* declaration, exactly one Var expr symbol, with the declaration's access
\* and the path active.path + "." + ident, and nothing else: the entries of
\* other identifiers (wildcards, literals and constructor names bind
\* nothing) are as they were.
C26_VarsOfPattern ==
    (tlast.name = "build_variables" /\ tlast.ok /\ tlast.decl.k = "Let") =>
        LET node == table.nodes[table.active]
            before == tlast.pre.nodes[table.active].exprs
            bound == PatVars(tlast.decl.pat)
        IN  /\ \A v \in bound :
                   LET registered ==
                           { s \in MapAt(node.exprs, v) : s.kind = "Var" }
                   IN  /\ registered =
                              { [kind |-> "Var", access |-> tlast.decl.access,
                                 path |-> Append(node.path, v)] }
                       /\ MapAt(node.exprs, v) \ registered
                              = MapAt(before, v) \ registered
            /\ \A k \in (DOMAIN node.exprs \cup DOMAIN before) \ bound :
                   MapAt(node.exprs, k) = MapAt(before, k)

\* C27: the frame of Table::import.  An import changes only the types,
\* exprs and nested maps of the active node: every other node, the import
\* target and the nodes walked on the way to it included, has the same
\* map keys and the same sets as before (no entry is created in it, not
\* even one holding an empty set), no node appears, and the active cursor
\* stays where it was.  Stated on the imports of the table operations.
C27_ImportFrame ==
    (tlast.name = "import") =>
        /\ table.active = tlast.pre.active
        /\ DOMAIN table.nodes = DOMAIN tlast.pre.nodes
        /\ \A n \in DOMAIN tlast.pre.nodes :
               IF n = table.active
               THEN \A f \in DOMAIN table.nodes[n] \ Fields :
                        table.nodes[n][f] = tlast.pre.nodes[n][f]
               ELSE table.nodes[n] = tlast.pre.nodes[n]

(***************************************************************************)
(*                     THE BUILDER ON A CHAIN OF OPENS                     *)
(* build() pass by pass on packages of at most MaxChain modules A, B, C,   *)
(* D at the root, each opening all of the next and the last one declaring  *)
(* a symbol, in every declaration order.                                   *)
(***************************************************************************)

MaxChain == 4

ChainNames == << "A", "B", "C", "D" >>

\* what the last module of a chain declares:  let x = 1,  func f(),
\* type T = Int
ChainOwn ==
    { LetName("x"), Decl("Func", "f", "Public", <<>>),
      Decl("Typealias", "T", "Public", <<>>) }

\* open name.*
OpenAll(name) ==
    Decl("Open", "", "Public",
         NodeImport(name, << WildImport(EmptySpan) >>, EmptySpan))

\* the i-th module of a chain of n modules whose last one declares own
ChainModule(i, n, own) ==
    Decl("Module", ChainNames[i], "Public",
         IF i = n THEN << own >> ELSE << OpenAll(ChainNames[i + 1]) >>)

\* the orders in which the elements of S can be written
RECURSIVE Orders(_)
Orders(S) ==
    IF S = {} THEN { <<>> }
    ELSE UNION { { << x >> \o rest : rest \in Orders(S \ {x}) } : x \in S }

ChainPackages ==
    UNION { { [j \in 1 .. n |-> ChainModule(order[j], n, own)] :
                  order \in Orders(1 .. n), own \in ChainOwn } :
            n \in 2 .. MaxChain }

InitChain ==
    /\ parser = Idle
    /\ pushed = <<>>
    /\ op = Idle
    /\ table = Table("root")
    /\ tlast = Idle
    /\ builder \in { [stage |-> "passes", ok |-> TRUE, src |-> p, pkg |-> p,
                      done |-> <<>>] : p \in ChainPackages }

NextChain == RunPass

SpecChain == InitChain /\ [][NextChain]_vars

\* the node of the module `name` declared at the root
RootModule(T, name) ==
    CHOOSE n \in DOMAIN T.nodes : T.nodes[n].path = << "root", name >>

\* node n of T holds everything node m holds in its types and exprs
Saturated(T, n, m) ==
    \A f \in {"types", "exprs"} :
        \A k \in DOMAIN T.nodes[m][f] :
            T.nodes[m][f][k] \subseteq MapAt(T.nodes[n][f], k)

\* C28: imports are saturated when build() finishes.  For every `open M.*`
\* declared in a node N, every symbol M.types or M.exprs holds under a name
\* at the end of build() is also in N.types resp. N.exprs under that name,
\* for every declaration order of the modules and every chain of modules
\* that open one another.
C28_ImportsSaturated ==
    (Len(builder.done) = 4 /\ builder.ok) =>
        \A j \in DOMAIN builder.src :
            \A i \in DOMAIN builder.src[j].body :
                LET decl == builder.src[j].body[i] IN
                decl.k = "Open" =>
                    Saturated(table, RootModule(table, builder.src[j].ident),
                              RootModule(table, decl.import.name))

(***************************************************************************)
(*                   THE SCOPE STACK OF THE CONTEXT                        *)
(* The member functions of Context, called in any order, at most MaxCalls  *)
(* changes and MaxScopes scopes deep.  The vector of scopes is the field   *)
(* ctx of `builder`, the changes that returned are the field log of `op`:  *)
(* the claims read the bindings off the log, not off the scopes.           *)
(***************************************************************************)

MaxCalls == 5
MaxScopes == 2

ContextIdents == { "x", "y" }
ContextTypes == { "Int", "Bool" }
ContextTypeVars == { "T", "U" }

\* a member function of Context returned v and left the scopes ctx, or threw
COk(ctx, v) == [ok |-> TRUE, ctx |-> ctx, v |-> v]
CThrow(ctx) == [ok |-> FALSE, ctx |-> ctx, v |-> <<>>]

push_scope(ctx) ==
    COk(Append(ctx, [type_vars |-> {}, expr_vars |-> EmptyMap]), <<>>)

pop_scope(ctx) ==
    IF ctx = <<>> THEN CThrow(ctx)
    ELSE COk(SubSeq(ctx, 1, Len(ctx) - 1), <<>>)

add_expr_var(ctx, ident, type) ==
    IF ctx = <<>> THEN CThrow(ctx)
    ELSE COk([ctx EXCEPT ![Len(ctx)].expr_vars = MapPut(@, ident, type)],
             <<>>)

add_type_var(ctx, ident) ==
    IF ctx = <<>> THEN CThrow(ctx)
    ELSE COk([ctx EXCEPT ![Len(ctx)].type_vars = @ \cup {ident}], <<>>)

\* A faulty find_expr_var: the scopes are searched from the outermost one.
RECURSIVE find_expr_var_from_outermost(_, _, _)
find_expr_var_from_outermost(ctx, j, ident) ==
    IF j > Len(ctx) THEN None
    ELSE IF ident \in DOMAIN ctx[j].expr_vars
    THEN Some(ctx[j].expr_vars[ident])
    ELSE find_expr_var_from_outermost(ctx, j + 1, ident)

find_expr_var_outermost_first(ctx, ident) ==
    find_expr_var_from_outermost(ctx, 1, ident)

\* the loop of find_expr_var over std::views::reverse(scopes), from the
\* j-th scope down
RECURSIVE find_expr_var_from(_, _, _)
find_expr_var_from(ctx, j, ident) ==
    IF j = 0 THEN None
    ELSE IF ident \in DOMAIN ctx[j].expr_vars
    THEN Some(ctx[j].expr_vars[ident])
    ELSE find_expr_var_from(ctx, j - 1, ident)

find_expr_var(ctx, ident) == find_expr_var_from(ctx, Len(ctx), ident)

\* Context() = default
InitContext ==
    /\ parser = Idle
    /\ pushed = <<>>
    /\ table = NoTable
    /\ op = [name |-> "init", ok |-> TRUE, log |-> <<>>]
    /\ tlast = Idle
    /\ builder = [stage |-> "context", ok |-> TRUE, ctx |-> <<>>]

\* the call `call` changed the context and returned or threw r
Changed(call, r) ==
    /\ Len(op.log) < MaxCalls
    /\ builder' = [builder EXCEPT !.ctx = r.ctx]
    /\ op' = IF r.ok THEN [op EXCEPT !.log = Append(@, call)] ELSE op
    /\ tlast' = [name |-> call.name, ok |-> r.ok, ident |-> call.ident,
                 empty |-> builder.ctx = <<>>]
    /\ UNCHANGED <<parser, pushed, table>>

PushScope ==
    /\ Len(builder.ctx) < MaxScopes
    /\ Changed([name |-> "push_scope", ident |-> "", type |-> ""],
               push_scope(builder.ctx))

PopScope ==
    Changed([name |-> "pop_scope", ident |-> "", type |-> ""],
            pop_scope(builder.ctx))

AddExprVar ==
    \E ident \in ContextIdents, type \in ContextTypes :
        Changed([name |-> "add_expr_var", ident |-> ident, type |-> type],
                add_expr_var(builder.ctx, ident, type))

AddTypeVar ==
    \E ident \in ContextTypeVars :
        Changed([name |-> "add_type_var", ident |-> ident, type |-> ""],
                add_type_var(builder.ctx, ident))

FindExprVar ==
    \E ident \in ContextIdents :
        /\ tlast' = [name |-> "find_expr_var", ok |-> TRUE, ident |-> ident,
                     v |-> find_expr_var(builder.ctx, ident)]
        /\ UNCHANGED <<parser, pushed, op, table, builder>>

HasTypeVar ==
    \E ident \in ContextTypeVars :
        /\ tlast' = [name |-> "has_type_var", ok |-> TRUE, ident |-> ident,
                     v |-> has_type_var(builder.ctx, ident)]
        /\ UNCHANGED <<parser, pushed, op, table, builder>>

NextContext ==
    \/ PushScope
    \/ PopScope
    \/ AddExprVar
    \/ AddTypeVar
    \/ FindExprVar
    \/ HasTypeVar

SpecContext == InitContext /\ [][NextContext]_vars

\* the scopes still on the stack after the calls of log, each the list of
\* the add_expr_var and add_type_var calls made while it was innermost
RECURSIVE OpenScopes(_)
OpenScopes(log) ==
    IF log = <<>> THEN <<>>
    ELSE LET before == OpenScopes(SubSeq(log, 1, Len(log) - 1))
             call == log[Len(log)]
         IN  CASE call.name = "push_scope" -> Append(before, <<>>)
               [] call.name = "pop_scope" ->
                    SubSeq(before, 1, Len(before) - 1)
               [] OTHER ->
                    [before EXCEPT ![Len(before)] = Append(@, call)]

\* the type most recently bound to ident in the innermost scope still on
\* the stack that binds it
Bound(log, ident) ==
    LET scopes == OpenScopes(log)
        binds(j) == { i \in DOMAIN scopes[j] :
                        /\ scopes[j][i].name = "add_expr_var"
                        /\ scopes[j][i].ident = ident }
        binding == { j \in DOMAIN scopes : binds(j) # {} }
    IN  IF binding = {} THEN None
        ELSE LET j == CHOOSE a \in binding : \A b \in binding : b <= a
                 i == CHOOSE a \in binds(j) : \A b \in binds(j) : b <= a
             IN  Some(scopes[j][i].type)

\* some scope still on the stack declares the type variable ident
DeclaredOnStack(log, ident) ==
    LET scopes == OpenScopes(log) IN
    \E j \in DOMAIN scopes : \E i \in DOMAIN scopes[j] :
        scopes[j][i].name = "add_type_var" /\ scopes[j][i].ident = ident

\* C29: the scope stack.  After any sequence of push_scope, pop_scope,
\* add_expr_var and add_type_var, find_expr_var(x) returns the type most
\* recently bound to x in the innermost scope still on the stack that
\* binds x, and nothing when no such scope is left; has_type_var(t) is
\* true exactly when a scope on the stack declares t; pop_scope,
\* add_expr_var and add_type_var fail exactly on an empty stack, which
\* they leave empty.
C29_ScopeStack ==
    /\ tlast.name = "find_expr_var" => tlast.v = Bound(op.log, tlast.ident)
    /\ tlast.name = "has_type_var"
           => tlast.v = DeclaredOnStack(op.log, tlast.ident)
    /\ tlast.name \in {"pop_scope", "add_expr_var", "add_type_var"}
           => /\ tlast.ok = ~tlast.empty
              /\ tlast.empty => builder.ctx = <<>>

\* find_expr_var found the inner binding of a name that two scopes on
\* the stack bind to different types
C29_Witness ==
    /\ tlast.name = "find_expr_var"
    /\ Len(builder.ctx) = 2
    /\ tlast.ident \in DOMAIN builder.ctx[1].expr_vars
    /\ tlast.ident \in DOMAIN builder.ctx[2].expr_vars
    /\ builder.ctx[1].expr_vars[tlast.ident]
           # builder.ctx[2].expr_vars[tlast.ident]
    /\ tlast.v = Some(builder.ctx[2].expr_vars[tlast.ident])

(***************************************************************************)
(*                  build_constants ON SYNTHESIZED NAMES                   *)
(* The first pass of build() on packages of at most MaxSynthDecls          *)
(* declarations whose extensions and initializers carry no identifier of   *)
(* their own.                                                              *)
(***************************************************************************)

MaxSynthDecls == 3

\* the declarations the packages are made of:
\*   extension Int: I { init()  init() }        extension Int: J {}
\*   class D { init()  extension Int: I {}  init() }          func f()
SynthDecls ==
    { Decl("Extension", "", "Public",
           << Decl("Init", "", "Public", <<>>),
              Decl("Init", "", "Public", <<>>) >>),
      Decl("Extension", "", "Private", <<>>),
      Decl("Class", "D", "Public",
           << Decl("Init", "", "Public", <<>>),
              Decl("Extension", "", "Public", <<>>),
              Decl("Init", "", "Private", <<>>) >>),
      Decl("Func", "f", "Public", <<>>) }

SynthPackages ==
    UNION { [1 .. n -> SynthDecls] : n \in 0 .. MaxSynthDecls }

InitSynth ==
    /\ parser = Idle
    /\ pushed = <<>>
    /\ op = Idle
    /\ table = Table("root")
    /\ tlast = Idle
    /\ builder \in { [stage |-> "parsed", ok |-> TRUE, src |-> p, pkg |-> p] :
                       p \in SynthPackages }

NextSynth == BuildConstants

SpecSynth == InitSynth /\ [][NextSynth]_vars

\* the declarations of src that build_constants names from the counter
Synthesized(src) ==
    { i \in DOMAIN src :
        src[i].k = "Extension" \/ (src[i].k = "Init" /\ src[i].ident = "") }

\* in node n of T and below, the declarations src, which the pass left as
\* decls, carry pairwise distinct synthesized identifiers, the counter of
\* the node has counted them, and each has a symbol and, for an extension,
\* a child node of its own
RECURSIVE DistinctNames(_, _, _, _)
DistinctNames(T, n, decls, src) ==
    LET node == T.nodes[n]
        named == Synthesized(src)
    IN  /\ \A i, j \in named : i # j => decls[i].ident # decls[j].ident
        /\ node.counter = Cardinality(named)
        /\ \A i \in named :
               /\ Cardinality(MapAt(node.exprs, decls[i].ident)) = 1
               /\ decls[i].k = "Extension"
                      => Cardinality(MapAt(node.nested, decls[i].ident)) = 1
        /\ \A i \in DOMAIN decls :
               decls[i].k \in NodeKinds =>
                   \A c \in MapAt(node.nested, decls[i].ident) :
                       DistinctNames(T, c, decls[i].body, src[i].body)

\* C30: synthesized identifiers are unique per node.  Within one node the
\* identifiers build_constants makes from the node counter, for extensions
\* and for initializers without an identifier, are pairwise distinct: the
\* counter is read and incremented once per synthesis and never reset, so
\* no two such declarations of a node share a symbol or a child node.
C30_SynthesizedDistinct ==
    (builder.stage = "constants" /\ builder.ok) =>
        DistinctNames(table, 1, builder.pkg, builder.src)

\* a class whose counter named an initializer, an extension and a second
\* initializer, beside two extensions of the root
C30_Witness ==
    /\ builder.stage = "constants" /\ builder.ok
    /\ table.nodes[1].counter = 2
    /\ \E n \in DOMAIN table.nodes :
           /\ table.nodes[n].kind = "Class"
           /\ table.nodes[n].counter = 3
           /\ DOMAIN table.nodes[n].exprs = { "init%0", "ext%1", "init%2" }
           /\ DOMAIN table.nodes[n].nested = { "ext%1" }

====
